---- MODULE Spec2Model ----
\* ObjectIR text runtime (charlie-sans/Pytime): the execution frame, the opcode
\* dispatcher, the structured control-flow driver of InstructionExecutor and
\* the embedding entry point ObjectIRTextRuntime.execute_method.
\*
\* Program counters are 0-based as in the source; At(ins, i) reads the i-th
\* instruction of a list. An unset return_value (Python None) is the empty
\* sequence and a set one is <<value>>.
EXTENDS Integers, Sequences, FiniteSets, TLC

\* ---------------------------------------------------------------- bounds
MaxN == 2
\* the driver stops taking loops when loop_stack holds this many entries
MaxLoopStack == 4
\* the embedder calls ObjectIRTextRuntime.execute_method at most this often
MaxCalls == 2
\* a method body of a parsed text is made of at most this many blocks
MaxBlocks == 3
HitCap == MaxN + 3

\* ---------------------------------------------------------------- values
INT32 == "System.Int32"
INT64 == "System.Int64"
FLOAT == "System.Float"
DOUBLE == "System.Double"
STRING_ == "System.String"
BOOL == "System.Boolean"
VOID == "System.Void"
OBJECT == "System.Object"

\* Python payloads (Value.data is dynamically typed): k is the Python type,
\* i the number of an int or bool (True is 1), i/d the quotient of a float,
\* s the text of a str.
PyInt(n) == [k |-> "int", i |-> n, d |-> 1, s |-> ""]
PyBool(b) == [k |-> "bool", i |-> IF b THEN 1 ELSE 0, d |-> 1, s |-> ""]
PyStr(t) == [k |-> "str", i |-> 0, d |-> 1, s |-> t]
PyFloat(n, m) == [k |-> "float", i |-> n, d |-> m, s |-> ""]
PyNone == [k |-> "None", i |-> 0, d |-> 1, s |-> ""]

IsNum(x) == x.k \in {"int", "bool"}
PyTrue == PyBool(TRUE)
\* Python truthiness of a payload.
Truthy(x) ==
    CASE x.k \in {"int", "bool", "float"} -> x.i # 0
      [] x.k = "str" -> x.s # ""
      [] OTHER -> FALSE

Value(data, type_) == [data |-> data, type_ |-> type_]

\* ---------------------------------------------------------------- instructions
\* One record per normalized instruction line. op is the first whitespace
\* separated token ("}" also for the line "} else {", whose text is kept in
\* `text`); the other fields hold the operands the handlers parse out of it.
\* An operand of a binary condition: the text of an integer literal or an
\* identifier. A condition: "stack", "true", "false", a binary comparison, or
\* text that is none of these ("other").
Lit(n) == [lit |-> TRUE, n |-> n, id |-> ""]
Id(x) == [lit |-> FALSE, n |-> 0, id |-> x]
\* an operand int() parses that is also the name of a variable
Token(n, x) == [lit |-> TRUE, n |-> n, id |-> x]
Cond(kind, o, l, r) == [kind |-> kind, op |-> o, l |-> l, r |-> r]
NoCond == Cond("none", "", Lit(0), Lit(0))
CondStack == Cond("stack", "", Lit(0), Lit(0))
CondTrue == Cond("true", "", Lit(0), Lit(0))
CondFalse == Cond("false", "", Lit(0), Lit(0))
Bin(l, o, r) == Cond("bin", o, l, r)

Ins(op) ==
    [op |-> op, text |-> op, name |-> "", num |-> 0, str |-> "", cond |-> NoCond,
     params |-> <<>>, ret |-> ""]

LdcI4(n) == [Ins("ldc.i4") EXCEPT !.num = n]
LdcI8(n) == [Ins("ldc.i8") EXCEPT !.num = n]
\* ldc.r8 n.0
LdcR8(n) == [Ins("ldc.r8") EXCEPT !.num = n]
\* ldcon <text>: name is what the text looks like ("quoted", "true", "false",
\* "decimal" for n.0, "integer", "raw"), num and str what it holds
Ldcon(looks, n, t) == [Ins("ldcon") EXCEPT !.name = looks, !.num = n, !.str = t]
Ldstr(t) == [Ins("ldstr") EXCEPT !.str = t]
Ldloc(x) == [Ins("ldloc") EXCEPT !.name = x]
Ldarg(x) == [Ins("ldarg") EXCEPT !.name = x]
Stloc(x) == [Ins("stloc") EXCEPT !.name = x]
Starg(x) == [Ins("starg") EXCEPT !.name = x]
Local(x, t) == [Ins("local") EXCEPT !.name = x, !.str = t]
Call(q, params, r) == [Ins("call") EXCEPT !.name = q, !.params = params, !.ret = r]
CallVirt(q, params, r) == [Ins("callvirt") EXCEPT !.name = q, !.params = params, !.ret = r]
If(c) == [Ins("if") EXCEPT !.text = "if {", !.cond = c]
While(c) == [Ins("while") EXCEPT !.text = "while {", !.cond = c]
Close == Ins("}")
CloseElse == [Ins("}") EXCEPT !.text = "} else {"]
Else == [Ins("else") EXCEPT !.text = "else {"]

\* lines of a source text that are not instructions
Blank == Ins("")
Comment == [Ins("//") EXCEPT !.text = "// note"]
ModuleHeader == [Ins("module") EXCEPT !.text = "module {", !.name = "M"]
ClassHeader == [Ins("class") EXCEPT !.text = "class {", !.name = "C"]
MethodHeader(method_name) == [Ins("method") EXCEPT !.text = "method {", !.name = method_name]

At(ins, i) == ins[i + 1]

\* The brace characters of a line, in textual order.
Braces(i) ==
    CASE i.text = "if {" -> <<"{">>
      [] i.text = "while {" -> <<"{">>
      [] i.text = "else {" -> <<"{">>
      [] i.text \in {"module {", "class {", "method {"} -> <<"{">>
      [] i.text = "} else {" -> <<"}", "{">>
      [] i.text = "}" -> <<"}">>
      [] OTHER -> <<>>

\* ---------------------------------------------------------------- frame
ExecutionFrame(method_name, args) ==
    [method_name |-> method_name, stack |-> <<>>, locals |-> <<>>,
     args |-> args, return_value |-> <<>>, pc |-> 0]

EmptyMap == <<>>

MapSet(m, k, v) == [x \in (DOMAIN m) \cup {k} |-> IF x = k THEN v ELSE m[x]]

NoError == ""
Underflow(frame) == "Stack underflow in " \o frame.method_name
UndefinedLocal(x) == "Undefined local variable: " \o x
UndefinedArg(x) == "Undefined argument: " \o x

push(frame, value) == [frame EXCEPT !.stack = Append(@, value)]

Top(frame) == frame.stack[Len(frame.stack)]

DropTop(frame) == [frame EXCEPT !.stack = SubSeq(@, 1, Len(@) - 1)]

\* The result of a handler: the frame and captured output it leaves and the
\* fatal error it raised (NoError if it returned normally).
Res(frame, out, err) == [frame |-> frame, out |-> out, err |-> err]

\* set_local that replaces the whole dictionary
set_local_clobber(frame, name, value) == [frame EXCEPT !.locals = [x \in {name} |-> value]]

set_local(frame, name, value) == [frame EXCEPT !.locals = MapSet(@, name, value)]

set_arg(frame, name, value) == [frame EXCEPT !.args = MapSet(@, name, value)]

\* ---------------------------------------------------------------- payload arithmetic
\* Python's operators on payloads. Numbers are exact quotients i/d with d > 0
\* (IEEE-754 rounding is not modelled); ok = FALSE carries the exception.
Ok(x) == [ok |-> TRUE, v |-> x, err |-> NoError]
Fail(e) == [ok |-> FALSE, v |-> PyNone, err |-> e]

IsReal(x) == x.k \in {"int", "bool", "float"}
Quot(n, m, float) == IF float THEN PyFloat(n, m) ELSE PyInt(n)
FloorDiv(n, m) == IF m > 0 THEN n \div m ELSE (-n) \div (-m)

RECURSIVE Repeat(_, _)
Repeat(t, n) == IF n <= 0 THEN "" ELSE t \o Repeat(t, n - 1)

PyAdd(a, b) ==
    CASE IsReal(a) /\ IsReal(b) ->
            Ok(Quot(a.i * b.d + b.i * a.d, a.d * b.d, "float" \in {a.k, b.k}))
      [] a.k = "str" /\ b.k = "str" -> Ok(PyStr(a.s \o b.s))
      [] OTHER -> Fail("TypeError")

PySub(a, b) ==
    IF IsReal(a) /\ IsReal(b)
    THEN Ok(Quot(a.i * b.d - b.i * a.d, a.d * b.d, "float" \in {a.k, b.k}))
    ELSE Fail("TypeError")

PyMul(a, b) ==
    CASE IsReal(a) /\ IsReal(b) -> Ok(Quot(a.i * b.i, a.d * b.d, "float" \in {a.k, b.k}))
      [] a.k = "str" /\ IsNum(b) -> Ok(PyStr(Repeat(a.s, b.i)))
      [] IsNum(a) /\ b.k = "str" -> Ok(PyStr(Repeat(b.s, a.i)))
      [] OTHER -> Fail("TypeError")

\* a // b: floor division.
PyFloorDiv(a, b) ==
    CASE ~(IsReal(a) /\ IsReal(b)) -> Fail("TypeError")
      [] b.i = 0 -> Fail("ZeroDivisionError")
      [] OTHER -> Ok(Quot(FloorDiv(a.i * b.d, a.d * b.i), 1, "float" \in {a.k, b.k}))

\* a / b: true division, always a float.
PyTrueDiv(a, b) ==
    CASE ~(IsReal(a) /\ IsReal(b)) -> Fail("TypeError")
      [] b.i = 0 -> Fail("ZeroDivisionError")
      [] b.i > 0 -> Ok(PyFloat(a.i * b.d, a.d * b.i))
      [] OTHER -> Ok(PyFloat(-(a.i * b.d), -(a.d * b.i)))

\* a % b: the remainder of floor division (the sign follows the divisor).
PyMod(a, b) ==
    CASE ~(IsReal(a) /\ IsReal(b)) -> Fail("TypeError")
      [] b.i = 0 -> Fail("ZeroDivisionError")
      [] OTHER ->
            LET q == FloorDiv(a.i * b.d, a.d * b.i)
            IN Ok(Quot(a.i * b.d - q * b.i * a.d, a.d * b.d, "float" \in {a.k, b.k}))

PyNeg(a) == IF IsReal(a) THEN Ok(Quot(-a.i, a.d, a.k = "float")) ELSE Fail("TypeError")

PyEq(a, b) ==
    CASE IsReal(a) /\ IsReal(b) -> a.i * b.d = b.i * a.d
      [] a.k = "str" /\ b.k = "str" -> a.s = b.s
      [] OTHER -> a.k = b.k

\* a < b; the order of two strings is not modelled (no program of the family
\* orders strings), every other mixed pair raises TypeError.
PyLt(a, b) == IF IsReal(a) /\ IsReal(b) THEN Ok(a.i * b.d < b.i * a.d) ELSE Fail("TypeError")
PyLe(a, b) == IF IsReal(a) /\ IsReal(b) THEN Ok(a.i * b.d <= b.i * a.d) ELSE Fail("TypeError")

\* str(x) for the payloads a program of the family can print.
Digit == <<"0", "1", "2", "3", "4", "5", "6", "7", "8", "9">>
RECURSIVE StrNat(_)
StrNat(n) == IF n < 10 THEN Digit[n + 1] ELSE StrNat(n \div 10) \o Digit[(n % 10) + 1]
StrInt(n) == IF n < 0 THEN "-" \o StrNat(-n) ELSE StrNat(n)
str(x) ==
    CASE x.k = "int" -> StrInt(x.i)
      [] x.k = "bool" -> IF x.i = 1 THEN "True" ELSE "False"
      [] x.k = "str" -> x.s
      [] x.k = "float" -> StrInt(x.i) \o "/" \o StrInt(x.d)
      [] OTHER -> "None"

\* ---------------------------------------------------------------- opcode handlers
_ldstr(frame, i) == push(frame, Value(PyStr(i.str), STRING_))
_ldc_i4(frame, i) == push(frame, Value(PyInt(i.num), INT32))
_ldc_i8(frame, i) == push(frame, Value(PyInt(i.num), INT64))
_ldc_r8(frame, i) == push(frame, Value(PyFloat(i.num, 1), DOUBLE))
_ldcon(frame, i) ==
    push(frame,
         CASE i.name = "quoted" -> Value(PyStr(i.str), STRING_)
           [] i.name = "true" -> Value(PyBool(TRUE), BOOL)
           [] i.name = "false" -> Value(PyBool(FALSE), BOOL)
           [] i.name = "decimal" -> Value(PyFloat(i.num, 1), DOUBLE)
           [] i.name = "integer" -> Value(PyInt(i.num), INT32)
           [] OTHER -> Value(PyStr(i.str), STRING_))
_ldnull(frame) == push(frame, Value(PyNone, OBJECT))
_ldc_bool(frame, bool_val) == push(frame, Value(PyBool(bool_val), BOOL))

\* get_local that falls back to the arguments
get_local_or_arg(frame, name) ==
    IF name \in DOMAIN frame.locals THEN Ok(frame.locals[name])
    ELSE IF name \in DOMAIN frame.args THEN Ok(frame.args[name])
    ELSE Fail(UndefinedLocal(name))

get_local(frame, name) ==
    IF name \in DOMAIN frame.locals THEN Ok(frame.locals[name]) ELSE Fail(UndefinedLocal(name))

get_arg(frame, name) ==
    IF name \in DOMAIN frame.args THEN Ok(frame.args[name]) ELSE Fail(UndefinedArg(name))

_ldloc(frame, out, i) ==
    LET r == get_local(frame, i.name)
    IN IF r.ok THEN Res(push(frame, r.v), out, NoError) ELSE Res(frame, out, r.err)

_ldarg(frame, out, i) ==
    LET r == get_arg(frame, i.name)
    IN IF r.ok THEN Res(push(frame, r.v), out, NoError) ELSE Res(frame, out, r.err)

_stloc(frame, out, i) ==
    IF frame.stack = <<>> THEN Res(frame, out, Underflow(frame))
    ELSE Res(set_local(DropTop(frame), i.name, Top(frame)), out, NoError)

_starg(frame, out, i) ==
    IF frame.stack = <<>> THEN Res(frame, out, Underflow(frame))
    ELSE Res(set_arg(DropTop(frame), i.name, Top(frame)), out, NoError)

\* the operands taken the other way round: the first pop is the left one
Operands_swapped(frame) == [a |-> Top(frame), b |-> Top(DropTop(frame))]

\* b = frame.pop(); a = frame.pop()
Operands(frame) == [a |-> Top(DropTop(frame)), b |-> Top(frame)]

\* b = pop(), a = pop(), push Value(a op b, tag): the pops that succeeded
\* before an underflow stay done.
Binary(frame, out, opname) ==
    IF Len(frame.stack) = 0 THEN Res(frame, out, Underflow(frame))
    ELSE IF Len(frame.stack) = 1 THEN Res(DropTop(frame), out, Underflow(frame))
    ELSE LET b == Operands(frame).b
             a == Operands(frame).a
             rest == DropTop(DropTop(frame))
             r == CASE opname = "add" -> PyAdd(a.data, b.data)
                    [] opname = "sub" -> PySub(a.data, b.data)
                    [] opname = "mul" -> PyMul(a.data, b.data)
                    [] opname = "div" ->
                          IF a.type_ \in {INT32, INT64}
                          THEN PyFloorDiv(a.data, b.data)
                          ELSE PyTrueDiv(a.data, b.data)
                    [] opname = "rem" -> PyMod(a.data, b.data)
                    [] opname = "ceq" -> Ok(PyBool(PyEq(a.data, b.data)))
                    [] opname = "cne" -> Ok(PyBool(~PyEq(a.data, b.data)))
                    [] opname = "clt" ->
                          LET c == PyLt(a.data, b.data)
                          IN IF c.ok THEN Ok(PyBool(c.v)) ELSE c
                    [] opname = "cle" ->
                          LET c == PyLe(a.data, b.data)
                          IN IF c.ok THEN Ok(PyBool(c.v)) ELSE c
                    [] opname = "cgt" ->
                          LET c == PyLt(b.data, a.data)
                          IN IF c.ok THEN Ok(PyBool(c.v)) ELSE c
                    [] opname = "cge" ->
                          LET c == PyLe(b.data, a.data)
                          IN IF c.ok THEN Ok(PyBool(c.v)) ELSE c
             tag == IF opname \in {"add", "sub", "mul", "div", "rem"} THEN a.type_ ELSE BOOL
         IN IF r.ok THEN Res(push(rest, Value(r.v, tag)), out, NoError)
            ELSE Res(rest, out, r.err)

_neg(frame, out) ==
    IF frame.stack = <<>> THEN Res(frame, out, Underflow(frame))
    ELSE LET val == Top(frame)
             r == PyNeg(val.data)
         IN IF r.ok THEN Res(push(DropTop(frame), Value(r.v, val.type_)), out, NoError)
            ELSE Res(DropTop(frame), out, r.err)

\* _dup that leaves an empty stack alone
_dup_silent(frame, out) ==
    IF frame.stack = <<>> THEN Res(frame, out, NoError)
    ELSE Res(push(frame, Top(frame)), out, NoError)

_dup(frame, out) ==
    IF frame.stack = <<>> THEN Res(frame, out, Underflow(frame))
    ELSE Res(push(frame, Top(frame)), out, NoError)

_pop(frame, out) ==
    IF frame.stack = <<>> THEN Res(frame, out, Underflow(frame))
    ELSE Res(DropTop(frame), out, NoError)

\* _throw that pops the value and returns
_throw_swallowed(frame, out) ==
    IF frame.stack = <<>> THEN Res(frame, out, Underflow(frame))
    ELSE Res(DropTop(frame), out, NoError)

_throw(frame, out) ==
    IF frame.stack = <<>> THEN Res(frame, out, Underflow(frame))
    ELSE Res(DropTop(frame), out, "VM Exception: " \o str(Top(frame).data))

\* The type table after lowercasing and stripping a leading "system.".
_resolve_value_type(type_name) ==
    CASE type_name \in {"int32", "system.int32"} -> INT32
      [] type_name \in {"int64", "system.int64"} -> INT64
      [] type_name \in {"float", "system.float"} -> FLOAT
      [] type_name \in {"double", "system.double"} -> DOUBLE
      [] type_name \in {"string", "system.string"} -> STRING_
      [] type_name \in {"bool", "system.bool"} -> BOOL
      [] OTHER -> OBJECT

_local(frame, i) ==
    LET val_type == _resolve_value_type(i.str)
        default_val ==
            CASE val_type \in {INT32, INT64} -> PyInt(0)
              [] val_type \in {FLOAT, DOUBLE} -> PyFloat(0, 1)
              [] val_type = BOOL -> PyBool(FALSE)
              [] OTHER -> PyNone
    IN set_local(frame, i.name, Value(default_val, val_type))

\* _ret that reads the top of the stack without popping it.
_ret_peek(frame) ==
    IF frame.stack # <<>> THEN [frame EXCEPT !.return_value = <<Top(frame)>>] ELSE frame

_ret(frame) ==
    IF frame.stack # <<>>
    THEN [DropTop(frame) EXCEPT !.return_value = <<Top(frame)>>]
    ELSE frame

\* ---------------------------------------------------------------- standard library
\* str.lower() on the type names the programs of the family use.
lower(t) ==
    CASE t = "Void" -> "void"
      [] t = "VOID" -> "void"
      [] t = "System.Void" -> "system.void"
      [] t = "Int32" -> "int32"
      [] t = "System.Int32" -> "system.int32"
      [] t = "String" -> "string"
      [] t = "System.String" -> "system.string"
      [] t = "Bool" -> "bool"
      [] t = "Foo" -> "foo"
      [] OTHER -> t

\* StandardLibrary.namespaces after __init__: the preloaded module Generics
\* registers "System" (__namespaces__ = ["System"]); when its import fails the
\* warning is printed and nothing is registered.
VARIABLE namespaces
Loads == {{"System"}, {}}

\* What Console.ReadLine() gives: Value(input(), ValueType.STRING), where
\* Value is the class Generics takes from Generictypes (a module that is not
\* among the sources): the VM's own Value class or a class of its own, which
\* the VM sees as any other object; input() raises EOFError at end of input.
VARIABLE read_line
ReadLines == {Ok(Value(PyStr("hi"), STRING_)), Ok(PyStr("<Generictypes.Value object>")),
              Fail("EOFError")}

\* StandardLibrary.resolve: the attribute reached, or "None".
resolve(qualified_name) ==
    CASE "System" \notin namespaces -> "None"
      [] qualified_name = "System.Console.WriteLine" -> "WriteLine"
      [] qualified_name = "System.Console.ReadLine" -> "ReadLine"
      [] qualified_name = "System.Console" -> "Console"
      [] qualified_name = "System.current_dir" -> "current_dir"
      [] qualified_name = "System" -> "module"
      [] OTHER -> "None"

callable(target) == target \in {"WriteLine", "ReadLine", "Console"}

\* target_callable(*python_args): Console.WriteLine(message) prints and
\* returns None; Console.ReadLine() takes no argument; Console(...) constructs
\* an object and takes no argument.
Invoke(target, python_args) ==
    CASE target = "WriteLine" ->
            IF Len(python_args) = 1 THEN Ok(PyNone) ELSE Fail("TypeError")
      [] target = "ReadLine" ->
            IF Len(python_args) = 0 THEN read_line ELSE Fail("TypeError")
      [] OTHER ->
            IF Len(python_args) = 0 THEN Ok(PyStr("<Console object>")) ELSE Fail("TypeError")

\* isinstance(result, Value)
IsValue(result) == DOMAIN result = {"data", "type_"}

\* _push_return_value that wraps whatever the host returned
_push_return_value_rewrap(frame, result, return_type) ==
    IF return_type = ""
    THEN push(frame, Value(result, OBJECT))
    ELSE IF lower(return_type) \in {"void", "system.void"}
         THEN frame
         ELSE push(frame, Value(result, _resolve_value_type(lower(return_type))))

\* return_type is a group of [\w\.]+, which strip() leaves as it is
_push_return_value(frame, result, return_type) ==
    IF return_type = ""
    THEN IF IsValue(result) THEN push(frame, result)
         ELSE IF result.k # "None" THEN push(frame, Value(result, OBJECT))
         ELSE frame
    ELSE IF lower(return_type) \in {"void", "system.void"} THEN frame
         ELSE IF IsValue(result) THEN push(frame, result)
         ELSE push(frame, Value(result, _resolve_value_type(lower(return_type))))

\* _pop_call_arguments without the reversal: the values in the order popped
_pop_call_arguments_unreversed(frame, count) ==
    IF Len(frame.stack) < count
    THEN [frame |-> [frame EXCEPT !.stack = <<>>], values |-> <<>>, err |-> Underflow(frame)]
    ELSE [frame |-> [frame EXCEPT !.stack = SubSeq(@, 1, Len(@) - count)],
          values |-> [k \in 1..count |-> frame.stack[Len(frame.stack) - k + 1]],
          err |-> NoError]

\* _pop_call_arguments: count pops, then reversed, which is the top count
\* values in the order they were pushed.
_pop_call_arguments(frame, count) ==
    IF Len(frame.stack) < count
    THEN [frame |-> [frame EXCEPT !.stack = <<>>], values |-> <<>>, err |-> Underflow(frame)]
    ELSE [frame |-> [frame EXCEPT !.stack = SubSeq(@, 1, Len(@) - count)],
          values |-> SubSeq(frame.stack, Len(frame.stack) - count + 1, Len(frame.stack)),
          err |-> NoError]

\* the entry that captures the last argument instead of the first
Captured_last(python_args) == str(python_args[Len(python_args)])

\* str(python_args[0]), the entry appended to console_output
Captured(python_args) == str(python_args[1])

\* '\n'.join(self.console_output)
RECURSIVE JoinFrom(_, _)
JoinFrom(out, k) ==
    IF k > Len(out) THEN ""
    ELSE IF k = Len(out) THEN out[k]
    ELSE out[k] \o "\n" \o JoinFrom(out, k + 1)

get_output(out) == JoinFrom(out, 1)

\* The pattern call\s+... finds nothing in a line whose opcode is callvirt.
CallPatternMatches(i) == i.op = "call"

\* _call that captures the WriteLine argument before it looks at the target
_call_capture_first(frame, out, i) ==
    IF ~CallPatternMatches(i) THEN Res(frame, out, NoError)
    ELSE
    LET popped == _pop_call_arguments(frame, Len(i.params))
        target_callable == resolve(i.name)
        python_args == [k \in 1..Len(popped.values) |-> popped.values[k].data]
        out2 == IF i.name = "System.Console.WriteLine" /\ Len(python_args) > 0
                THEN Append(out, Captured(python_args))
                ELSE out
        result == Invoke(target_callable, python_args)
    IN CASE popped.err # NoError -> Res(popped.frame, out, popped.err)
         [] target_callable = "None" \/ ~callable(target_callable) ->
                Res(popped.frame, out2, NoError)
         [] ~result.ok -> Res(popped.frame, out2, result.err)
         [] OTHER -> Res(_push_return_value(popped.frame, result.v, i.ret), out2, NoError)

_call(frame, out, i) ==
    IF ~CallPatternMatches(i) THEN Res(frame, out, NoError)
    ELSE
    LET popped == _pop_call_arguments(frame, Len(i.params))
        target_callable == resolve(i.name)
        python_args == [k \in 1..Len(popped.values) |-> popped.values[k].data]
        out2 == IF i.name = "System.Console.WriteLine" /\ Len(python_args) > 0
                THEN Append(out, Captured(python_args))
                ELSE out
        result == Invoke(target_callable, python_args)
    IN CASE popped.err # NoError -> Res(popped.frame, out, popped.err)
         [] target_callable = "None" \/ ~callable(target_callable) ->
                Res(popped.frame, out, NoError)
         [] ~result.ok -> Res(popped.frame, out2, result.err)
         [] OTHER -> Res(_push_return_value(popped.frame, result.v, i.ret), out2, NoError)

\* target_callable(*python_args) as _call reaches it: the target and the
\* payloads passed (one entry), or nothing when _call returns or raises before.
HostCall(frame, i) ==
    LET popped == _pop_call_arguments(frame, Len(i.params))
        target_callable == resolve(i.name)
    IN IF /\ i.op \in {"call", "callvirt"}
          /\ CallPatternMatches(i)
          /\ popped.err = NoError
          /\ target_callable # "None"
          /\ callable(target_callable)
       THEN <<[target |-> target_callable,
               args |-> [k \in 1..Len(popped.values) |-> popped.values[k].data]]>>
       ELSE <<>>

\* ---------------------------------------------------------------- dispatcher
BinaryOps == {"add", "sub", "mul", "div", "rem", "ceq", "cgt", "clt", "cge", "cle", "cne"}

execute_instruction(frame, out, i) ==
    CASE i.op = "ldstr" -> Res(_ldstr(frame, i), out, NoError)
      [] i.op = "ldc.i4" -> Res(_ldc_i4(frame, i), out, NoError)
      [] i.op = "ldc.i8" -> Res(_ldc_i8(frame, i), out, NoError)
      [] i.op = "ldc.r8" -> Res(_ldc_r8(frame, i), out, NoError)
      [] i.op = "ldnull" -> Res(_ldnull(frame), out, NoError)
      [] i.op = "ldcon" -> Res(_ldcon(frame, i), out, NoError)
      [] i.op \in {"ldc.b.0", "ldfalse"} -> Res(_ldc_bool(frame, FALSE), out, NoError)
      [] i.op \in {"ldc.b.1", "ldtrue"} -> Res(_ldc_bool(frame, TRUE), out, NoError)
      [] i.op = "ldloc" -> _ldloc(frame, out, i)
      [] i.op = "ldarg" -> _ldarg(frame, out, i)
      [] i.op = "stloc" -> _stloc(frame, out, i)
      [] i.op = "starg" -> _starg(frame, out, i)
      [] i.op \in BinaryOps -> Binary(frame, out, i.op)
      [] i.op = "neg" -> _neg(frame, out)
      [] i.op = "dup" -> _dup(frame, out)
      [] i.op = "pop" -> _pop(frame, out)
      [] i.op = "nop" -> Res(frame, out, NoError)
      [] i.op = "throw" -> _throw(frame, out)
      [] i.op = "local" -> Res(_local(frame, i), out, NoError)
      [] i.op = "if" -> Res(frame, out, NoError)
      [] i.op \in {"call", "callvirt"} -> _call(frame, out, i)
      [] i.op = "ret" -> Res(_ret(frame), out, NoError)
      [] OTHER -> Res(frame, out, NoError)

\* ---------------------------------------------------------------- control flow
\* One line of _scan_matching_brace: the balance after the line, and whether
\* a "}" brought it to 0.
RECURSIVE ScanLine(_, _, _)
ScanLine(chars, k, balance) ==
    IF k > Len(chars) THEN [found |-> FALSE, balance |-> balance]
    ELSE IF chars[k] = "{" THEN ScanLine(chars, k + 1, balance + 1)
    ELSE IF balance - 1 = 0 THEN [found |-> TRUE, balance |-> 0]
    ELSE ScanLine(chars, k + 1, balance - 1)

RECURSIVE ScanFrom(_, _, _)
ScanFrom(instructions, i, balance) ==
    IF i >= Len(instructions) THEN Len(instructions)
    ELSE LET r == ScanLine(Braces(At(instructions, i)), 1, balance)
         IN IF r.found THEN i ELSE ScanFrom(instructions, i + 1, r.balance)

_scan_matching_brace(instructions, start_index) == ScanFrom(instructions, start_index, 0)

\* _eval_operand that asks the arguments before the locals
_eval_operand_args_first(frame, op) ==
    IF op.lit THEN PyInt(op.n)
    ELSE IF op.id \in DOMAIN frame.args THEN frame.args[op.id].data
    ELSE IF op.id \in DOMAIN frame.locals THEN frame.locals[op.id].data
    ELSE PyInt(0)

_eval_operand(frame, op) ==
    IF op.lit THEN PyInt(op.n)
    ELSE IF op.id \in DOMAIN frame.locals THEN frame.locals[op.id].data
    ELSE IF op.id \in DOMAIN frame.args THEN frame.args[op.id].data
    ELSE PyInt(0)

\* The frame the evaluation leaves, the truth value, the error raised.
CondRes(frame, v, err) == [frame |-> frame, v |-> v, err |-> err]

_evaluate_condition(frame, cond) ==
    CASE cond.kind = "stack" ->
            IF frame.stack = <<>> THEN CondRes(frame, FALSE, Underflow(frame))
            ELSE CondRes(DropTop(frame), Top(frame).data = PyTrue, NoError)
      [] cond.kind = "true" -> CondRes(frame, TRUE, NoError)
      [] cond.kind = "false" -> CondRes(frame, FALSE, NoError)
      [] cond.kind = "bin" ->
            LET lval == _eval_operand(frame, cond.l)
                rval == _eval_operand(frame, cond.r)
                c == CASE cond.op = "<" -> PyLt(lval, rval)
                       [] cond.op = ">" -> PyLt(rval, lval)
                       [] cond.op = "<=" -> PyLe(lval, rval)
                       [] cond.op = ">=" -> PyLe(rval, lval)
                       [] cond.op = "==" -> Ok(PyEq(lval, rval))
                       [] OTHER -> Ok(~PyEq(lval, rval))
            IN IF c.ok THEN CondRes(frame, c.v, NoError) ELSE CondRes(frame, FALSE, c.err)
      [] OTHER -> CondRes(frame, FALSE, NoError)

\* The condition of an `if` header: `stack` is tested by _handle_if itself.
IfCondition(frame, cond) ==
    IF cond.kind = "stack"
    THEN IF frame.stack = <<>> THEN CondRes(frame, FALSE, Underflow(frame))
         ELSE CondRes(DropTop(frame),
                      Top(frame).type_ = BOOL /\ Truthy(Top(frame).data), NoError)
    ELSE _evaluate_condition(frame, cond)

ContainsElse(i) == i.text \in {"} else {", "else {"}
StartsWithElse(i) == i.text = "else {"

\* _handle_if without the look at the line after the closing brace: an
\* `else {` written on its own line is not entered.
_handle_if_no_next_line_else(frame, instructions, current_pc) ==
    LET c == IfCondition(frame, At(instructions, current_pc).cond)
        end_index == _scan_matching_brace(instructions, current_pc)
    IN CASE c.err # NoError -> [frame |-> c.frame, err |-> c.err]
         [] c.v -> [frame |-> c.frame, err |-> NoError]
         [] end_index >= Len(instructions) -> [frame |-> c.frame, err |-> "IndexError"]
         [] OTHER -> [frame |-> [c.frame EXCEPT !.pc = end_index + 1], err |-> NoError]

\* frame arrives with pc = current_pc + 1. The result is the frame and error.
_handle_if(frame, instructions, current_pc) ==
    LET c == IfCondition(frame, At(instructions, current_pc).cond)
        end_index == _scan_matching_brace(instructions, current_pc)
        after == end_index + 1
    IN CASE c.err # NoError -> [frame |-> c.frame, err |-> c.err]
         [] c.v -> [frame |-> c.frame, err |-> NoError]
         [] end_index >= Len(instructions) -> [frame |-> c.frame, err |-> "IndexError"]
         [] ContainsElse(At(instructions, end_index)) ->
                [frame |-> [c.frame EXCEPT !.pc = after], err |-> NoError]
         [] after < Len(instructions) /\ StartsWithElse(At(instructions, after)) ->
                [frame |-> [c.frame EXCEPT !.pc = after + 1], err |-> NoError]
         [] OTHER -> [frame |-> [c.frame EXCEPT !.pc = after], err |-> NoError]

_handle_while(frame, instructions, current_pc, loop_stack) ==
    LET c == _evaluate_condition(frame, At(instructions, current_pc).cond)
        end_index == _scan_matching_brace(instructions, current_pc)
    IN CASE c.err # NoError -> [frame |-> c.frame, loop_stack |-> loop_stack, err |-> c.err]
         [] c.v -> [frame |-> c.frame,
                    loop_stack |-> Append(loop_stack, <<current_pc, end_index>>),
                    err |-> NoError]
         [] OTHER -> [frame |-> [c.frame EXCEPT !.pc = end_index + 1],
                      loop_stack |-> loop_stack, err |-> NoError]

\* `break` inside a loop: the driver reads the top entry and jumps.
BreakLoop(frame, loop_stack) ==
    [frame |-> [frame EXCEPT !.pc = loop_stack[Len(loop_stack)][2] + 1],
     loop_stack |-> loop_stack]

\* `continue` inside a loop.
ContinueLoop(frame, loop_stack) ==
    [frame |-> [frame EXCEPT !.pc = loop_stack[Len(loop_stack)][1]],
     loop_stack |-> loop_stack]

_handle_close_brace(frame, current_pc, loop_stack) ==
    IF loop_stack # <<>> /\ loop_stack[Len(loop_stack)][2] = current_pc
    THEN [frame |-> [frame EXCEPT !.pc = loop_stack[Len(loop_stack)][1]],
          loop_stack |-> SubSeq(loop_stack, 1, Len(loop_stack) - 1)]
    ELSE [frame |-> frame, loop_stack |-> loop_stack]

_skip_block(frame, instructions, current_pc) ==
    [frame EXCEPT !.pc = _scan_matching_brace(instructions, current_pc) + 1]

\* A driver that never looks at return_value.
ReturnCheck_never(frame) == FALSE

\* `if frame.return_value is not None: break` at the end of an iteration.
ReturnCheck(frame) == frame.return_value # <<>>

\* ---------------------------------------------------------------- parser
\* line.count(ch)
RECURSIVE CountFrom(_, _, _)
CountFrom(chars, k, ch) ==
    IF k > Len(chars) THEN 0
    ELSE (IF chars[k] = ch THEN 1 ELSE 0) + CountFrom(chars, k + 1, ch)
count(line, ch) == CountFrom(Braces(line), 1, ch)

\* `not line or line.startswith('//')`
Skipped(line) == line.op = "" \/ line.op = "//"
\* line.startswith('if ') and line.startswith('else') on stripped lines
StartsIf(line) == line.op = "if"
StartsElse(line) == line.op = "else"

\* the inner while loop of _parse_if_statement that collects the else body
RECURSIVE ElseBody(_, _, _, _)
ElseBody(lines, i, else_brace_count, if_block) ==
    IF i < Len(lines) /\ else_brace_count > 0
    THEN LET else_body_line == At(lines, i)
         IN IF Skipped(else_body_line)
            THEN ElseBody(lines, i + 1, else_brace_count, if_block)
            ELSE ElseBody(lines, i + 1,
                          else_brace_count + count(else_body_line, "{")
                              - count(else_body_line, "}"),
                          Append(if_block, else_body_line))
    ELSE [if_block |-> if_block, next |-> i]

\* the loop of _parse_if_statement from line i on
RECURSIVE IfStatementFrom(_, _, _, _)
IfStatementFrom(lines, i, brace_count, if_block) ==
    IF i >= Len(lines) THEN [if_block |-> if_block, next |-> i]
    ELSE LET line == At(lines, i)
             counted == brace_count + count(line, "{") - count(line, "}")
             block == Append(if_block, line)
         IN CASE Skipped(line) -> IfStatementFrom(lines, i + 1, brace_count, if_block)
              [] StartsIf(line) ->
                    IfStatementFrom(lines, i + 1,
                                    IF count(line, "{") > 0
                                    THEN count(line, "{") - count(line, "}")
                                    ELSE brace_count,
                                    block)
              [] counted = 0 /\ count(line, "}") > 0 ->
                    IF i + 1 < Len(lines) /\ StartsElse(At(lines, i + 1))
                    THEN LET else_line == At(lines, i + 1)
                         IN IF count(else_line, "{") > 0
                            THEN ElseBody(lines, i + 2,
                                          count(else_line, "{") - count(else_line, "}"),
                                          Append(block, else_line))
                            ELSE [if_block |-> Append(block, else_line), next |-> i + 2]
                    ELSE [if_block |-> block, next |-> i + 1]
              [] OTHER -> IfStatementFrom(lines, i + 1, counted, block)

_parse_if_statement(lines, start_idx) == IfStatementFrom(lines, start_idx, 0, <<>>)

\* the loop of _parse_method_body from line i on: the instructions, whether
\* self.methods[method_name] was assigned, and the index returned
RECURSIVE MethodBodyFrom(_, _, _, _)
MethodBodyFrom(lines, i, brace_count, instructions) ==
    IF i >= Len(lines)
    THEN [assigned |-> FALSE, instructions |-> instructions, next |-> Len(lines)]
    ELSE LET line == At(lines, i)
             counted == brace_count + count(line, "{") - count(line, "}")
         IN CASE Skipped(line) -> MethodBodyFrom(lines, i + 1, brace_count, instructions)
              [] counted = 0 ->
                    [assigned |-> TRUE, instructions |-> instructions, next |-> i + 1]
              [] counted > 0 /\ StartsIf(line) ->
                    LET r == _parse_if_statement(lines, i)
                    IN MethodBodyFrom(lines, r.next, counted, instructions \o r.if_block)
              [] counted > 0 ->
                    MethodBodyFrom(lines, i + 1, counted, Append(instructions, line))
              [] OTHER -> MethodBodyFrom(lines, i + 1, counted, instructions)

_parse_method_body(lines, start_idx) == MethodBodyFrom(lines, start_idx, 1, <<>>)

\* ---------------------------------------------------------------- programs
\* The instruction lists the executions run on, as the parser emits them for
\* well-formed method bodies (one entry per stripped line).
WriteLine(t) == Call("System.Console.WriteLine", <<t>>, "void")
Say(t) == <<Ldstr(t), WriteLine("string")>>
LdcBool(b) == IF b THEN Ins("ldc.b.1") ELSE Ins("ldc.b.0")
Incr(x) == <<Ldloc(x), LdcI4(1), Ins("add"), Stloc(x)>>
ElseStyles == {"same line", "next line"}
ElseOpen(e) == IF e = "same line" THEN <<CloseElse>> ELSE <<Close, Else>>

\* ldc.b; if (stack) { A } else { B }; C
IfElseProgram(e, b) ==
    <<LdcBool(b), If(CondStack)>> \o Say("A") \o ElseOpen(e) \o Say("B") \o <<Close>> \o Say("C")

\* ldc.b; if (stack) { A }; C
IfProgram(b) == <<LdcBool(b), If(CondStack)>> \o Say("A") \o <<Close>> \o Say("C")

\* local i = n; if (i < 1) { A } else { B }; C
IfCompareProgram(e, n) ==
    <<Local("i", "int32"), LdcI4(n), Stloc("i"), If(Bin(Id("i"), "<", Lit(1)))>>
    \o Say("A") \o ElseOpen(e) \o Say("B") \o <<Close>> \o Say("C")

\* if (b1) { if (b2) { A } else { B }; C } else { D }; E
NestedIfProgram(e, b1, b2) ==
    <<LdcBool(b1), If(CondStack), LdcBool(b2), If(CondStack)>> \o Say("A") \o ElseOpen(e)
    \o Say("B") \o <<Close>> \o Say("C") \o ElseOpen(e) \o Say("D") \o <<Close>> \o Say("E")

\* verify_vm.test_while with bound n
WhileProgram(n) ==
    <<Local("i", "int32"), LdcI4(0), Stloc("i"), While(Bin(Id("i"), "<", Lit(n))),
      Ldloc("i"), WriteLine("int32")>> \o Incr("i") \o <<Close>> \o Say("Done")

\* verify_vm.test_break_continue with bound n + 3
BreakContinueProgram(n) ==
    <<Local("i", "int32"), LdcI4(0), Stloc("i"), While(Bin(Id("i"), "<", Lit(n + 3)))>>
    \o Incr("i")
    \o <<Ldloc("i"), LdcI4(2), Ins("ceq"), If(CondStack)>> \o Say("Skipping 2")
    \o <<Ins("continue"), Close>>
    \o <<Ldloc("i"), LdcI4(4), Ins("ceq"), If(CondStack)>> \o Say("Breaking at 4")
    \o <<Ins("break"), Close>>
    \o <<Ldloc("i"), WriteLine("int32"), Close>>

\* while (i < n) { while (true) { break }; i++; o }; end
NestedBreakProgram(n) ==
    <<Local("i", "int32"), While(Bin(Id("i"), "<", Lit(n))), While(CondTrue), Ins("break"), Close>>
    \o Incr("i") \o Say("o") \o <<Close>> \o Say("end")

\* while (i < n) { j = 0; while (j < 1) { j++; continue }; i++; o }; end
NestedContinueProgram(n) ==
    <<Local("i", "int32"), While(Bin(Id("i"), "<", Lit(n))), Local("j", "int32"),
      While(Bin(Id("j"), "<", Lit(1)))>> \o Incr("j") \o <<Ins("continue"), Close>>
    \o Incr("i") \o Say("o") \o <<Close>> \o Say("end")

\* while (i < n) { i++; while (true) { break }; if (i == 1) { continue }; o }; end
ContinueAfterInnerProgram(n) ==
    <<Local("i", "int32"), While(Bin(Id("i"), "<", Lit(n)))>> \o Incr("i")
    \o <<While(CondTrue), Ins("break"), Close, If(Bin(Id("i"), "==", Lit(1))),
         Ins("continue"), Close>> \o Say("o") \o <<Close>> \o Say("end")

\* while (true) { while (true) { break }; nop; break }; nop
BreakAfterInnerProgram ==
    <<While(CondTrue), While(CondTrue), Ins("break"), Close, Ins("nop"), Ins("break"), Close,
      Ins("nop")>>

\* while (i < n) { i++ }; break; continue; X
StrayAfterLoopProgram(n) ==
    <<Local("i", "int32"), While(Bin(Id("i"), "<", Lit(n)))>> \o Incr("i")
    \o <<Close, Ins("break"), Ins("continue")>> \o Say("X")

\* while (true) { break }; nop; break; nop
StrayAfterBreakProgram ==
    <<While(CondTrue), Ins("break"), Close, Ins("nop"), Ins("break"), Ins("nop")>>

\* while (i < 2) { i++; if (i == 1) { continue } }; nop; continue; nop
StrayAfterContinueProgram ==
    <<Local("i", "int32"), While(Bin(Id("i"), "<", Lit(2)))>> \o Incr("i")
    \o <<If(Bin(Id("i"), "==", Lit(1))), Ins("continue"), Close, Close,
         Ins("nop"), Ins("continue"), Ins("nop")>>

\* break; X; continue; Y  (no loop at all)
StrayProgram == <<Ins("break")>> \o Say("X") \o <<Ins("continue")>> \o Say("Y")

\* scenario 2 of the specification, followed by dead code
ArithmeticProgram(n) == <<LdcI4(2), LdcI4(n), Ins("add"), Ins("ret"), LdcI4(7), Ins("ret")>>

\* ret on an empty stack, then a value is returned
VoidRetProgram == <<Ins("ret")>> \o Say("after") \o <<LdcI4(1), Ins("ret"), LdcI4(2)>>

\* two values pushed, one returned
ExtraValueProgram(n) == <<LdcI4(n), LdcI4(n + 1), Ins("ret"), Ins("nop")>>

\* values left on the stack and no ret
LeftoverProgram(n) == <<LdcI4(n), Ins("dup"), LdcI8(3), Ins("mul"), Ins("ldnull")>>

\* ret inside an if-body
RetInIfProgram(b) ==
    <<LdcBool(b), If(CondStack), LdcI4(7), Ins("ret"), Close, LdcI4(8), Ins("ret"), Ins("nop")>>

\* ret inside a while-body
RetInWhileProgram(n) ==
    <<Local("i", "int32"), While(Bin(Id("i"), "<", Lit(n))), Ldstr("in"), Ins("ret"), Close,
      LdcI4(9), Ins("ret"), Ins("nop")>>

\* verify_vm.test_instructions
ArgumentProgram ==
    <<Ldarg("arg1"), WriteLine("int32"), LdcI4(5), Ins("neg"), WriteLine("int32"),
      LdcI4(10), LdcI4(20), Ins("cne"), If(CondStack)>> \o Say("PASS") \o <<Close, Ins("nop")>>

\* an argument read by a condition and returned
ArgumentRetProgram ==
    <<If(Bin(Id("arg1"), ">", Lit(0))), Ldarg("arg1"), Ins("ret"), Close, LdcI4(0), Ins("ret")>>

\* fatal errors
PopProgram == <<Ins("pop"), Ins("nop")>>
AddProgram == <<LdcI4(1), Ins("add"), Ins("nop")>>
ThrowProgram == Say("before") \o <<Ldstr("boom"), Ins("throw")>> \o Say("after")
UndefinedLocalProgram == <<Ldloc("u"), Ins("nop")>>
DivideProgram(n) == <<LdcI4(7), LdcI4(n), Ins("div"), Ins("ret")>>

\* calls that do not resolve, callvirt, a non-void return clause, other opcodes
CallProgram ==
    <<Ldstr("x"), Call("System.Foo", <<"string">>, "void"),
      Ldstr("y"), CallVirt("System.Console.WriteLine", <<"string">>, "void"), Ins("pop"),
      Ldstr("z"), Call("System.Console.WriteLine", <<"string">>, "Int32"), Ins("pop"),
      LdcI4(5), LdcI4(3), Ins("sub"), LdcI4(2), Ins("rem"), Ins("ldtrue"), Ins("clt"),
      Starg("a"), Ins("frobnicate"), Ldarg("a"), Ins("ret")>>

\* a div b on INT32 operands of either sign
SignedDivideProgram(a, b) == <<LdcI4(a), LdcI4(b), Ins("div"), Ins("ret")>>
Dividends == {-7} \cup (-MaxN..MaxN)
Divisors == -MaxN..MaxN

\* div on operands of mixed tags, zero divisors included
LeftLoads == {LdcI8(-3), LdcR8(-3), LdcR8(1)}
RightLoads == {LdcI4(0), LdcI4(2), LdcR8(0), LdcR8(2)}
MixedDivideProgram(l, r) == <<l, r, Ins("div"), Ins("ret")>>

\* 5 - 3 with an INT32 left and an INT64 right operand
MixedSubProgram == <<LdcI4(5), LdcI8(3), Ins("sub"), Ins("ret")>>

\* a loaded value stored to x, then other locals and an argument named x are
\* written, then x is read back
AnyLoads ==
    {LdcI4(1), LdcI8(1), LdcR8(1), Ldstr("s"), Ins("ldnull"), Ins("ldtrue"), Ins("ldc.b.0"),
     Ldcon("quoted", 0, "q"), Ldcon("true", 0, "True"), Ldcon("decimal", 2, ""),
     Ldcon("integer", 7, ""), Ldcon("raw", 0, "abc"), Ldarg("arg1")}
StoreLoadProgram(l) ==
    <<Local("y", "string"), l, Stloc("x"), LdcI4(9), Stloc("y"), LdcI4(8), Starg("x"),
      Local("z", "int32"), Ldloc("x"), Ins("ret")>>

\* a local re-declared after the store
RedeclareProgram == <<LdcI4(5), Stloc("x"), Local("x", "bool"), Ldloc("x"), Ins("ret")>>

\* an instruction that needs a value, dispatched on an empty stack
NeedOne ==
    {Ins("pop"), Ins("dup"), Stloc("x"), Starg("x"), Ins("throw"), Ins("neg"),
     Call("System.Console.WriteLine", <<"string">>, "void")}
EmptyStackProgram(i) == <<i, Ins("nop")>>

\* a binary opcode dispatched on k values, k < 2
BinaryUnderflowProgram(o, k) == [j \in 1..k |-> LdcI4(j)] \o <<Ins(o), Ins("nop")>>

\* `if (stack)` and `while (stack)` on an empty stack
HeaderUnderflowProgram(h) == <<h, Ins("nop"), Close, Ins("nop")>>

\* a load of a name that only the other dictionary holds
CrossLookupProgram(l) ==
    Say("p") \o <<LdcI4(1), Stloc("x"), LdcI4(2), Starg("a"), LdcI4(3), l, Ins("nop")>>

\* throw inside an if-body and inside a while-body, a value beneath the thrown one
ThrowInIfProgram ==
    Say("p") \o <<LdcI4(1), Ins("ldtrue"), If(CondStack), LdcI4(5), Ins("throw"), Close>>
    \o Say("after")
ThrowInWhileProgram ==
    <<While(CondTrue)>> \o Say("in") \o <<Ldstr("boom"), Ins("throw"), Close>> \o Say("after")

\* opcodes no table knows: one that begins like a header, one that does not
UnknownOpcodes == {"iffy", "whileloop", "frobnicate"}
UnknownAtEndProgram(o) == Say("a") \o <<Ins(o), Ins("nop")>>
UnknownBeforeBlockProgram(o) ==
    <<LdcI4(1), Ins(o)>> \o Say("a") \o <<Ins("ldtrue"), If(CondStack)>> \o Say("b")
    \o <<Close>> \o Say("c")

\* a FLOAT-tagged local divided by zero
FloatLocalProgram == <<Local("x", "float"), Ldloc("x"), LdcI4(0), Ins("div"), Ins("nop")>>

\* WriteLine called with k arguments (the host function takes one)
WriteLineArityProgram(k) ==
    Say("p") \o [j \in 1..k |-> Ldstr(<<"a", "b", "c">>[j])]
    \o <<Call("System.Console.WriteLine", [j \in 1..k |-> "string"], "void")>> \o Say("q")

\* targets that are not invokable, a constructor without parameters, a call
\* that finds fewer values than it declares
TargetsProgram ==
    <<Ldstr("x"), Call("System", <<"string">>, "void"), LdcI4(1),
      Call("System.current_dir", <<>>, ""), Call("System.Console", <<>>, "object"),
      Call("System.Console.WriteLine", <<"string">>, "void"),
      Call("System.Foo", <<"int32", "int32">>, "void"), Ins("nop")>>

\* one value, then a call of each host function with each return clause
ReturnClauses ==
    {"", "void", "VOID", "Void", "System.Void", "string", "System.String", "Int32", "Bool", "Foo"}
Callees == {"System.Console.WriteLine", "System.Console.ReadLine", "System.Console"}
ReturnProgram(callee, r) ==
    <<LdcI4(7)>>
    \o (IF callee = "System.Console.WriteLine"
        THEN <<Ldstr("m"), Call(callee, <<"string">>, r)>>
        ELSE <<Call(callee, <<>>, r)>>)
    \o <<Ins("nop")>>

\* a header comparing two operands: a literal, x (a local and an argument),
\* arg1 (an argument when the caller supplies it), u (neither), 5 (a literal
\* that is also the name of a local); one value stays on the stack
Operand == {Lit(1), Id("x"), Id("arg1"), Id("u"), Token(5, "5")}
HeaderKinds == {"if", "while"}
OperandProgram(header, c) ==
    <<LdcI4(9), LdcI4(1), Stloc("x"), LdcI4(2), Starg("x"), LdcI4(0), Stloc("5")>>
    \o (IF header = "if" THEN <<If(c)>> \o Say("T")
        ELSE <<While(c)>> \o Say("T") \o <<Ins("break")>>)
    \o <<Close>> \o Say("E")
Comparisons ==
    {Bin(l, o, r) : l \in Operand, o \in {"<", "=="}, r \in Operand}
    \cup {Bin(Id("x"), o, Id("arg1")) : o \in {"<=", ">=", "!=", ">"}}

Booleans == {TRUE, FALSE}
Sizes == 0..MaxN

Programs ==
    {OperandProgram(header, c) : header \in HeaderKinds, c \in Comparisons} \cup
    {ReturnProgram(callee, r) : callee \in Callees, r \in ReturnClauses} \cup
    {IfElseProgram(e, b) : e \in ElseStyles, b \in Booleans}
    \cup {IfProgram(b) : b \in Booleans}
    \cup {IfCompareProgram(e, n) : e \in ElseStyles, n \in Sizes}
    \cup {NestedIfProgram(x[1], x[2], x[3]) : x \in ElseStyles \X Booleans \X Booleans}
    \cup {WhileProgram(n) : n \in Sizes}
    \cup {BreakContinueProgram(n) : n \in Sizes}
    \cup {NestedBreakProgram(n) : n \in Sizes}
    \cup {NestedContinueProgram(n) : n \in Sizes}
    \cup {ContinueAfterInnerProgram(n) : n \in Sizes}
    \cup {StrayAfterLoopProgram(n) : n \in Sizes}
    \cup {ArithmeticProgram(n) : n \in Sizes}
    \cup {ExtraValueProgram(n) : n \in Sizes}
    \cup {LeftoverProgram(n) : n \in Sizes}
    \cup {RetInIfProgram(b) : b \in Booleans}
    \cup {RetInWhileProgram(n) : n \in Sizes}
    \cup {DivideProgram(n) : n \in Sizes}
    \cup {WriteLineArityProgram(k) : k \in Sizes}
    \cup {SignedDivideProgram(a, b) : a \in Dividends, b \in Divisors}
    \cup {MixedDivideProgram(l, r) : l \in LeftLoads, r \in RightLoads}
    \cup {StoreLoadProgram(l) : l \in AnyLoads}
    \cup {UnknownAtEndProgram(o) : o \in UnknownOpcodes}
    \cup {UnknownBeforeBlockProgram(o) : o \in UnknownOpcodes}
    \cup {CrossLookupProgram(l) : l \in {Ldloc("a"), Ldarg("x"), Ldloc("x"), Ldarg("a")}}
    \cup {EmptyStackProgram(i) : i \in NeedOne}
    \cup {BinaryUnderflowProgram(o, k) : o \in BinaryOps, k \in {0, 1}}
    \cup {HeaderUnderflowProgram(h) : h \in {If(CondStack), While(CondStack)}}
    \cup {BreakAfterInnerProgram, StrayAfterBreakProgram, StrayAfterContinueProgram,
          StrayProgram, VoidRetProgram, ArgumentProgram, ArgumentRetProgram, PopProgram,
          AddProgram, ThrowProgram, UndefinedLocalProgram, CallProgram, TargetsProgram,
          FloatLocalProgram, MixedSubProgram, RedeclareProgram, ThrowInIfProgram,
          ThrowInWhileProgram}

\* The arguments a caller supplies: none, or arg1.
Supplied == {EmptyMap} \cup {[x \in {"arg1"} |-> Value(PyInt(n), INT32)] : n \in Sizes}

\* The blocks a method body of a source text is made of, and the bodies of
\* up to MaxBlocks of them.
Blocks ==
    {<<Ins("nop")>>,
     <<Comment, Blank, LdcI4(1)>>,
     <<If(CondStack), Ins("pop"), Close>>,
     <<While(CondTrue), Ins("break"), Close>>,
     <<If(CondStack), If(CondStack), Ins("nop"), Close, Ins("pop"), Close>>,
     <<While(CondTrue), If(CondStack), Ins("nop"), Close, Close>>}
    \cup {<<If(CondStack), Ins("pop")>> \o ElseOpen(e) \o <<Ins("nop"), Close>> : e \in ElseStyles}

RECURSIVE Bodies(_)
Bodies(n) ==
    IF n = 0 THEN {<<>>}
    ELSE Bodies(n - 1) \cup {body \o block : body \in Bodies(n - 1), block \in Blocks}

\* a file holding the method alone, or a module whose class declares Run and
\* then a second method Two
Layouts == {"method", "module"}
Source(layout, body) ==
    IF layout = "method"
    THEN <<MethodHeader("Run")>> \o body \o <<Close>>
    ELSE <<Comment, ModuleHeader, ClassHeader, MethodHeader("Run")>> \o body
         \o <<Close, Blank, MethodHeader("Two"), Ins("ret"), Close, Close, Close>>
Sources == {Source(layout, body) : layout \in Layouts, body \in Bodies(MaxBlocks)}

\* ---------------------------------------------------------------- state
VARIABLES
    lines,            \* the stripped lines of the text handed to ObjectIRParser.parse
    parse_i,          \* the index i of the loop of parse
    parser_methods,   \* ObjectIRParser.methods
    instructions,     \* parser.methods["Run"]
    supplied,         \* the arguments the caller passes
    frame,            \* the ExecutionFrame handed to InstructionExecutor.execute_method
    loop_stack,       \* its local loop_stack
    console_output,   \* InstructionExecutor.console_output
    status,           \* "running", "done" (the driver returned) or "error" (it raised)
    error,            \* the message of the fatal error, NoError if none
    cur,              \* current_pc of the last iteration of the driver, -1 before the first
    prev,             \* frame, loop_stack and console_output before that iteration
    hits,             \* how often each position was dispatched (saturating at HitCap)
    host_calls,       \* the host functions the executor invoked, with their arguments
    stored,           \* per local, the value its last `stloc` took (none once re-declared)
    rt_frame,         \* the frame ObjectIRTextRuntime.execute_method creates
    rt_output,        \* console_output of the runtime's own executor
    execution_stack,  \* ObjectIRTextRuntime.execution_stack (method names)
    rt_i,             \* position of its for loop
    rt_status,        \* "idle", "running", "done" or "error"
    rt_error,
    rt_hits,          \* how often the current call dispatched each position
    result,           \* what execute_method returned
    rt_method,        \* method_name of the last call of execute_method
    rt_calls,         \* how many calls of execute_method were made
    rt_prev,          \* rt_frame, rt_output and execution_stack before the last step
    rt_cur            \* the position that step dispatched, -1 if it dispatched none

vars ==
    <<instructions, supplied, frame, loop_stack, console_output, status, error, cur, prev, hits,
      host_calls, stored, rt_frame, rt_output, execution_stack, rt_i, rt_status, rt_error, rt_hits, result,
      rt_method, rt_calls, rt_prev, rt_cur, namespaces, read_line, lines, parse_i,
      parser_methods>>

svars ==
    <<frame, loop_stack, console_output, status, error, cur, prev, hits, host_calls, stored>>
rvars ==
    <<rt_frame, rt_output, execution_stack, rt_i, rt_status, rt_error, rt_hits, result,
      rt_method, rt_calls, rt_prev, rt_cur>>
pvars == <<lines, parse_i, parser_methods>>
\* what no step of an execution changes: the program, the caller's arguments,
\* the loaded library, the parser
cvars == <<instructions, supplied, namespaces, read_line, lines, parse_i, parser_methods>>

Snapshot ==
    [frame |-> frame, loop_stack |-> loop_stack, console_output |-> console_output,
     host_calls |-> host_calls]
RuntimeSnapshot ==
    [frame |-> rt_frame, console_output |-> rt_output, execution_stack |-> execution_stack]

\* parser.methods after parsing a module whose only method is Run
methods == [m \in {"Run"} |-> instructions]
\* the names an embedder asks for
MethodNames == {"Run", "Missing"}

Bump(h, p) == [h EXCEPT ![p] = IF @ < HitCap THEN @ + 1 ELSE @]

\* verify_vm.run_test: a frame named Run whose args the harness sets from the
\* supplied arguments, handed to executor.execute_method (which sets pc = 0).
Constructed ==
    /\ frame = ExecutionFrame("Run", supplied)
    /\ loop_stack = <<>>
    /\ console_output = <<>>
    /\ host_calls = <<>>
    /\ stored = EmptyMap
    /\ status = "running"
    /\ error = NoError
    /\ cur = -1
    /\ prev = Snapshot
    /\ hits = [p \in 0..(Len(instructions) - 1) |-> 0]
    /\ rt_frame = ExecutionFrame("", EmptyMap)
    /\ rt_output = <<>>
    /\ execution_stack = <<>>
    /\ rt_i = 0
    /\ rt_status = "idle"
    /\ rt_error = NoError
    /\ rt_hits = [p \in 0..(Len(instructions) - 1) |-> 0]
    /\ result = <<>>
    /\ rt_method = ""
    /\ rt_calls = 0
    /\ rt_prev = RuntimeSnapshot
    /\ rt_cur = -1

Init ==
    /\ instructions \in Programs
    /\ supplied \in Supplied
    /\ namespaces \in Loads
    /\ read_line \in ReadLines
    /\ Constructed
    /\ lines = <<>>
    /\ parse_i = 0
    /\ parser_methods = EmptyMap

\* ---------------------------------------------------------------- the structured driver
\* One iteration of the while loop of InstructionExecutor.execute_method:
\* instruction = instructions[frame.pc]; current_pc = frame.pc; frame.pc += 1;
\* dispatch; leave the loop when return_value is set. A fatal error leaves
\* the loop with the frame as the handler left it.
Fetching == status = "running" /\ frame.pc < Len(instructions)
instruction == At(instructions, frame.pc)
Entered == [frame EXCEPT !.pc = @ + 1]

\* str.startswith on the opcodes the programs use
startswith(opcode, prefix) ==
    CASE prefix = "if" -> opcode \in {"if", "iffy"}
      [] prefix = "while" -> opcode \in {"while", "whileloop"}
      [] OTHER -> opcode = prefix

IsElseLine(i) == i.op = "else" \/ i.text = "} else {"

\* the branch of the if/elif chain of the driver an instruction takes
Branch(i) ==
    CASE startswith(i.op, "if") -> "if"
      [] startswith(i.op, "while") -> "while"
      [] i.op = "break" -> "break"
      [] i.op = "continue" -> "continue"
      [] IsElseLine(i) -> "else"
      [] i.op = "}" -> "}"
      [] OTHER -> "execute"

Iteration(f, ls, out, err) ==
    /\ frame' = f
    /\ loop_stack' = ls
    /\ console_output' = out
    /\ error' = err
    /\ status' = IF err # NoError THEN "error" ELSE IF ReturnCheck(f) THEN "done" ELSE "running"
    /\ cur' = frame.pc
    /\ prev' = Snapshot
    /\ hits' = Bump(hits, frame.pc)
    /\ host_calls' =
          IF Branch(instruction) # "execute" THEN host_calls
          ELSE host_calls \o HostCall(Entered, instruction)
    /\ stored' =
          CASE instruction.op = "stloc" /\ err = NoError ->
                  MapSet(stored, instruction.name, Top(frame))
            [] instruction.op = "local" ->
                  [x \in DOMAIN stored \ {instruction.name} |-> stored[x]]
            [] OTHER -> stored
    /\ UNCHANGED cvars
    /\ UNCHANGED rvars

HandleIf ==
    /\ Fetching
    /\ Branch(instruction) = "if"
    /\ LET r == _handle_if(Entered, instructions, frame.pc)
       IN Iteration(r.frame, loop_stack, console_output, r.err)

HandleWhile ==
    /\ Fetching
    /\ Branch(instruction) = "while"
    /\ Len(loop_stack) < MaxLoopStack
    /\ LET r == _handle_while(Entered, instructions, frame.pc, loop_stack)
       IN Iteration(r.frame, r.loop_stack, console_output, r.err)

Break ==
    /\ Fetching
    /\ Branch(instruction) = "break"
    /\ LET r == IF loop_stack = <<>>
                THEN [frame |-> Entered, loop_stack |-> loop_stack]
                ELSE BreakLoop(Entered, loop_stack)
       IN Iteration(r.frame, r.loop_stack, console_output, NoError)

Continue ==
    /\ Fetching
    /\ Branch(instruction) = "continue"
    /\ LET r == IF loop_stack = <<>>
                THEN [frame |-> Entered, loop_stack |-> loop_stack]
                ELSE ContinueLoop(Entered, loop_stack)
       IN Iteration(r.frame, r.loop_stack, console_output, NoError)

SkipElse ==
    /\ Fetching
    /\ Branch(instruction) = "else"
    /\ Iteration(_skip_block(Entered, instructions, frame.pc), loop_stack, console_output, NoError)

CloseBrace ==
    /\ Fetching
    /\ Branch(instruction) = "}"
    /\ LET r == _handle_close_brace(Entered, frame.pc, loop_stack)
       IN Iteration(r.frame, r.loop_stack, console_output, NoError)

ExecuteInstruction ==
    /\ Fetching
    /\ Branch(instruction) = "execute"
    /\ LET r == execute_instruction(Entered, console_output, instruction)
       IN Iteration(r.frame, loop_stack, r.out, r.err)

\* The loop condition frame.pc < len(instructions) fails: the driver returns.
RunOffEnd ==
    /\ status = "running"
    /\ frame.pc >= Len(instructions)
    /\ status' = "done"
    /\ UNCHANGED <<frame, loop_stack, console_output, error, cur, prev, hits, host_calls,
                    stored>>
    /\ UNCHANGED cvars
    /\ UNCHANGED rvars

\* ---------------------------------------------------------------- the runtime entry point
\* ObjectIRTextRuntime.execute_method(method_name, *args), called once the
\* direct run of the executor is over (main.Main.run_file).
RuntimeFrame(method_name, args) == ExecutionFrame(method_name, EmptyMap)

\* `if method_name not in self.parser.methods`
MethodFound_any(method_name) == TRUE

MethodFound(method_name) == method_name \in DOMAIN methods

MethodNotFound(method_name) == "Method not found: " \o method_name

CallPossible ==
    /\ status \in {"done", "error"}
    /\ rt_status \in {"idle", "done", "error"}
    /\ rt_calls < MaxCalls

\* raise RuntimeError(f"Method not found: {method_name}"): nothing was created
RuntimeNotFound ==
    /\ CallPossible
    /\ \E method_name \in MethodNames :
          /\ ~MethodFound(method_name)
          /\ rt_method' = method_name
          /\ rt_error' = MethodNotFound(method_name)
    /\ rt_status' = "error"
    /\ rt_calls' = rt_calls + 1
    /\ rt_prev' = RuntimeSnapshot
    /\ rt_cur' = -1
    /\ rt_hits' = [p \in DOMAIN rt_hits |-> 0]
    /\ UNCHANGED <<rt_frame, rt_output, execution_stack, rt_i, result>>
    /\ UNCHANGED cvars
    /\ UNCHANGED svars

\* frame = ExecutionFrame(method_name); self.execution_stack.append(frame)
RuntimeEnter ==
    /\ CallPossible
    /\ \E method_name \in MethodNames :
          /\ MethodFound(method_name)
          /\ rt_method' = method_name
          /\ rt_frame' = RuntimeFrame(method_name, supplied)
          /\ execution_stack' = Append(execution_stack, method_name)
    /\ rt_i' = 0
    /\ rt_status' = "running"
    /\ rt_error' = NoError
    /\ rt_calls' = rt_calls + 1
    /\ rt_prev' = RuntimeSnapshot
    /\ rt_cur' = -1
    /\ rt_hits' = [p \in DOMAIN rt_hits |-> 0]
    /\ UNCHANGED <<rt_output, result>>
    /\ UNCHANGED cvars
    /\ UNCHANGED svars

\* for instruction in instructions: self.executor.execute_instruction(frame, instruction);
\* an exception runs the finally clause and propagates.
RuntimeStep ==
    /\ rt_status = "running"
    /\ rt_i < Len(instructions)
    /\ LET r == execute_instruction(rt_frame, rt_output, At(instructions, rt_i))
       IN /\ rt_frame' = r.frame
          /\ rt_output' = r.out
          /\ rt_error' = r.err
          /\ rt_status' = IF r.err # NoError THEN "error" ELSE "running"
          /\ execution_stack' =
                IF r.err # NoError
                THEN SubSeq(execution_stack, 1, Len(execution_stack) - 1)
                ELSE execution_stack
    /\ rt_i' = rt_i + 1
    /\ rt_hits' = Bump(rt_hits, rt_i)
    /\ rt_prev' = RuntimeSnapshot
    /\ rt_cur' = rt_i
    /\ UNCHANGED <<result, rt_method, rt_calls>>
    /\ UNCHANGED cvars
    /\ UNCHANGED svars

\* result = frame.return_value; finally execution_stack.pop(); return result
RuntimeReturn ==
    /\ rt_status = "running"
    /\ rt_i >= Len(instructions)
    /\ result' = rt_frame.return_value
    /\ execution_stack' = SubSeq(execution_stack, 1, Len(execution_stack) - 1)
    /\ rt_status' = "done"
    /\ rt_prev' = RuntimeSnapshot
    /\ rt_cur' = -1
    /\ UNCHANGED <<rt_frame, rt_output, rt_i, rt_error, rt_hits, rt_method, rt_calls>>
    /\ UNCHANGED cvars
    /\ UNCHANGED svars

Next ==
    \/ HandleIf
    \/ HandleWhile
    \/ Break
    \/ Continue
    \/ SkipElse
    \/ CloseBrace
    \/ ExecuteInstruction
    \/ RunOffEnd
    \/ RuntimeNotFound
    \/ RuntimeEnter
    \/ RuntimeStep
    \/ RuntimeReturn

Spec == Init /\ [][Next]_vars

\* ---------------------------------------------------------------- ObjectIRParser.parse
\* A fresh parser handed a source text; nothing is executed.
ParserInit ==
    /\ lines \in Sources
    /\ parse_i = 0
    /\ parser_methods = EmptyMap
    /\ instructions = <<>>
    /\ supplied = EmptyMap
    /\ namespaces = {"System"}
    /\ read_line = Fail("EOFError")
    /\ Constructed

Parsing == parse_i < Len(lines)
line == At(lines, parse_i)

\* blank lines and comments, and lines that are no declaration (the closing
\* braces of classes and modules): the loop goes on
ParseSkip ==
    /\ Parsing
    /\ Skipped(line) \/ line.op \notin {"module", "class", "method"}
    /\ parse_i' = parse_i + 1
    /\ UNCHANGED <<lines, parser_methods>>
    /\ UNCHANGED <<instructions, supplied, namespaces, read_line, svars, rvars>>

\* `module ` and `class ` lines record the name (in tables no claim reads)
ParseDeclaration ==
    /\ Parsing
    /\ line.op \in {"module", "class"}
    /\ parse_i' = parse_i + 1
    /\ UNCHANGED <<lines, parser_methods>>
    /\ UNCHANGED <<instructions, supplied, namespaces, read_line, svars, rvars>>

\* a `method ` line: self.methods[name] = [], then _parse_method_body, which
\* assigns the list only when the brace count returns to 0
ParseMethod ==
    /\ Parsing
    /\ line.op = "method"
    /\ LET r == _parse_method_body(lines, parse_i + 1)
       IN /\ parser_methods' =
                MapSet(parser_methods, line.name, IF r.assigned THEN r.instructions ELSE <<>>)
          /\ parse_i' = r.next
    /\ UNCHANGED lines
    /\ UNCHANGED <<instructions, supplied, namespaces, read_line, svars, rvars>>

ParserNext == ParseSkip \/ ParseDeclaration \/ ParseMethod

ParserSpec == ParserInit /\ [][ParserNext]_vars

\* ---------------------------------------------------------------- block structure
\* The syntactic structure of an instruction list, used to state the
\* properties: BlockClose(h) is the line holding the "}" that closes the block
\* the last "{" of line h opens.
RECURSIVE CloseInLine(_, _, _)
CloseInLine(chars, k, depth) ==
    IF k > Len(chars) THEN [closed |-> FALSE, depth |-> depth]
    ELSE IF chars[k] = "}"
         THEN IF depth = 1 THEN [closed |-> TRUE, depth |-> 0]
              ELSE CloseInLine(chars, k + 1, depth - 1)
         ELSE CloseInLine(chars, k + 1, depth + 1)

RECURSIVE CloseFrom(_, _, _)
CloseFrom(ins, i, depth) ==
    IF i >= Len(ins) THEN Len(ins)
    ELSE LET r == CloseInLine(Braces(At(ins, i)), 1, depth)
         IN IF r.closed THEN i ELSE CloseFrom(ins, i + 1, r.depth)

BlockClose(h) == CloseFrom(instructions, h + 1, 1)

Positions == 0..(Len(instructions) - 1)
Op(p) == At(instructions, p).op
Text(p) == At(instructions, p).text

\* The while headers whose body holds position p, and the innermost of them.
EnclosingLoops(p) == {h \in Positions : Op(h) = "while" /\ h < p /\ p < BlockClose(h)}
InnermostLoop(p) == CHOOSE h \in EnclosingLoops(p) : \A g \in EnclosingLoops(p) : g <= h

\* The else attached to the if at h: written on the closing line, or on the
\* line after it.
ElseSameLine(h) == BlockClose(h) < Len(instructions) /\ Text(BlockClose(h)) = "} else {"
ElseNextLine(h) ==
    /\ BlockClose(h) + 1 < Len(instructions)
    /\ Text(BlockClose(h)) = "}"
    /\ Text(BlockClose(h) + 1) = "else {"
ElseBodyStart(h) == IF ElseSameLine(h) THEN BlockClose(h) + 1 ELSE BlockClose(h) + 2

\* The last iteration of the driver dispatched an instruction with opcode o
\* and raised no error.
Dispatched(o) == cur >= 0 /\ status # "error" /\ Op(cur) = o

\* ---------------------------------------------------------------- claims

\* C1: when the condition of an `if` evaluates false, control goes to the
\* first instruction of the attached else body (both ways of writing the
\* else), or, with no else, to the first instruction after the closing brace;
\* the brace closing an else body passes control to the instruction after it.
IfWasFalse == Dispatched("if") /\ ~IfCondition(prev.frame, At(instructions, cur).cond).v

ClosesElseBody(p) ==
    \E h \in Positions :
        /\ Op(h) = "if"
        /\ ElseSameLine(h) \/ ElseNextLine(h)
        /\ BlockClose(ElseBodyStart(h) - 1) = p

C1_IfFalseTakesElse ==
    /\ IfWasFalse =>
          IF ElseSameLine(cur) \/ ElseNextLine(cur)
          THEN frame.pc = ElseBodyStart(cur)
          ELSE frame.pc = BlockClose(cur) + 1
    /\ (Dispatched("}") /\ ClosesElseBody(cur)) => frame.pc = cur + 1

C1_Witness ==
    /\ IfWasFalse
    /\ ElseNextLine(cur)
    /\ frame.pc = BlockClose(cur) + 2
    /\ Op(frame.pc) = "ldstr"

\* C2: an else line reached by linear flow (the if-body was executed) passes
\* control to the first instruction after the closing brace of the else body,
\* for both ways of writing the else.
C2_ElseSkipsToAfterBlock ==
    (cur >= 0 /\ status # "error" /\ IsElseLine(At(instructions, cur)))
        => frame.pc = BlockClose(cur) + 1

\* C3: a while header that evaluates true enters the body and one that
\* evaluates false passes control to the instruction after the loop's closing
\* brace; each time the closing brace of a loop is reached the header is
\* re-tested.
ClosesLoop(p) == \E h \in Positions : Op(h) = "while" /\ BlockClose(h) = p
LoopClosedBy(p) == CHOOSE h \in Positions : Op(h) = "while" /\ BlockClose(h) = p

C3_WhileRunsWhileTrue ==
    /\ Dispatched("while") =>
          IF _evaluate_condition(prev.frame, At(instructions, cur).cond).v
          THEN frame.pc = cur + 1
          ELSE frame.pc = BlockClose(cur) + 1
    /\ (Dispatched("}") /\ ClosesLoop(cur)) => frame.pc = LoopClosedBy(cur)

\* C4: a `break` inside while loops passes control to the instruction after
\* the closing brace of the innermost loop that encloses it.
C4_BreakExitsInnermost ==
    (Dispatched("break") /\ EnclosingLoops(cur) # {})
        => frame.pc = BlockClose(InnermostLoop(cur)) + 1

\* C5: a `continue` inside while loops passes control to the header of the
\* innermost loop that encloses it.
C5_ContinueRetestsInnermost ==
    (Dispatched("continue") /\ EnclosingLoops(cur) # {})
        => frame.pc = InnermostLoop(cur)

\* C6: a `break` or `continue` that no while loop encloses only advances the
\* program counter: stack, locals, args, return_value and captured output are
\* unchanged.
C6_StrayBreakContinueIgnored ==
    ((Dispatched("break") \/ Dispatched("continue")) /\ EnclosingLoops(cur) = {})
        => /\ frame = [prev.frame EXCEPT !.pc = cur + 1]
           /\ console_output = prev.console_output

\* C7 as stated: an execution that neither underflows nor throws ends with an
\* empty operand stack.
C7_StackEmptyAfterExecution == status = "done" => frame.stack = <<>>

\* C7 amended: `ret` dispatched on a non-empty stack sets return_value to the
\* value that was on top and removes only that value; the values beneath it
\* stay on the stack.
C7_RetTakesTopOnly ==
    (Dispatched("ret") /\ prev.frame.stack # <<>>)
        => /\ frame.return_value = <<Top(prev.frame)>>
           /\ frame.stack = SubSeq(prev.frame.stack, 1, Len(prev.frame.stack) - 1)

C7_Witness ==
    /\ Dispatched("ret")
    /\ Len(prev.frame.stack) = 2
    /\ Len(frame.stack) = 1
    /\ status = "done"

\* C8: the driver returns only when pc has run off the end or return_value is
\* set; once return_value is set the driver has returned, the last instruction
\* dispatched is the `ret` that set it and return_value is the value that `ret`
\* took from the top of the stack.
C8_StopsWhenReturnSet ==
    /\ status = "done" => (frame.pc >= Len(instructions) \/ frame.return_value # <<>>)
    /\ frame.return_value # <<>> =>
          /\ status = "done"
          /\ Op(cur) = "ret"
          /\ frame.pc = cur + 1
          /\ frame.return_value = <<Top(prev.frame)>>

C8_Witness ==
    /\ frame.return_value # <<>>
    /\ status = "done"
    /\ EnclosingLoops(cur) # {}
    /\ frame.pc < Len(instructions)

\* C9: the runtime's execute_method dispatches the same instructions and
\* yields the same return value and captured output as the structured driver
\* run on a fresh frame (no arguments) over the same instruction list.
C9_RuntimeMatchesStructured ==
    (supplied = EmptyMap /\ status = "done" /\ rt_status = "done" /\ rt_calls = 1)
        => /\ result = frame.return_value
           /\ rt_output = console_output
           /\ rt_hits = hits

\* C10: the arguments supplied to the runtime's execute_method are the args
\* of the frame it creates, and no `ldarg` of a supplied argument raises an
\* undefined-argument error.
C10_SuppliedArgsPopulateFrame ==
    /\ (rt_status = "running" /\ rt_i = 0) => rt_frame.args = supplied
    /\ \A a \in DOMAIN supplied : rt_error # UndefinedArg(a)

\* C11: execute_method called with a name that is not in the parser's method
\* table raises the method-not-found error, dispatches no instruction, creates
\* no frame, and leaves execution_stack and the captured console output as
\* they were before the call.
C11_UnknownMethodRaises ==
    (rt_calls > 0 /\ rt_method \notin DOMAIN methods)
        => /\ rt_status = "error"
           /\ rt_error = "Method not found: " \o rt_method
           /\ \A p \in DOMAIN rt_hits : rt_hits[p] = 0
           /\ rt_frame = rt_prev.frame
           /\ execution_stack = rt_prev.execution_stack
           /\ rt_output = rt_prev.console_output

\* an unknown name asked for after a call of Run that captured output
C11_Witness ==
    /\ rt_calls = 2
    /\ rt_method = "Missing"
    /\ rt_status = "error"
    /\ rt_output # <<>>
    /\ execution_stack = <<>>

\* C12: the captured output changes only when a `call
\* System.Console.WriteLine(...)` with at least one argument is dispatched and
\* its target resolves: then str of the first argument (the one pushed first)
\* is appended; every other step, and a later call of execute_method, leaves
\* the entries as they are. get_output() is the entries joined by newlines.
Resolves == "System" \in namespaces

CapturedBy(i, stack) ==
    IF /\ i.op = "call"
       /\ i.name = "System.Console.WriteLine"
       /\ Len(i.params) >= 1
       /\ Len(stack) >= Len(i.params)
       /\ Resolves
    THEN <<str(stack[Len(stack) - Len(i.params) + 1].data)>>
    ELSE <<>>

\* the joined text once the entries `add` follow the entries `before`
JoinedAfter(before, add) ==
    IF add = <<>> THEN get_output(before)
    ELSE IF before = <<>> THEN add[1]
    ELSE get_output(before) \o "\n" \o add[1]

C12_OutputIsWriteLineArguments ==
    /\ cur >= 0 =>
          LET add == CapturedBy(At(instructions, cur), prev.frame.stack)
          IN /\ console_output = prev.console_output \o add
             /\ get_output(console_output) = JoinedAfter(prev.console_output, add)
    /\ rt_cur >= 0 =>
          LET add == CapturedBy(At(instructions, rt_cur), rt_prev.frame.stack)
          IN /\ rt_output = rt_prev.console_output \o add
             /\ get_output(rt_output) = JoinedAfter(rt_prev.console_output, add)
    /\ rt_cur < 0 => rt_output = rt_prev.console_output

\* a second entry is captured from a two-argument call that then fails in the host
C12_Witness ==
    /\ cur >= 0
    /\ Len(At(instructions, cur).params) = 2
    /\ console_output = <<"p", "a">>
    /\ get_output(console_output) = "p\na"
    /\ status = "error"

\* C13: a `call` whose parameter list declares N types pops exactly N values
\* (none for an empty list) and the values beneath them stay; the target is
\* handed their payloads in the order they were pushed; with fewer than N
\* values on the stack the call raises the stack-underflow error and invokes
\* nothing.
Invokable(i) ==
    Resolves /\ i.name \in {"System.Console.WriteLine", "System.Console.ReadLine", "System.Console"}

C13_CallPopsDeclaredArguments ==
    (cur >= 0 /\ Op(cur) = "call") =>
        LET i == At(instructions, cur)
            n == Len(i.params)
            before == prev.frame.stack
            kept == Len(before) - n
        IN IF Len(before) < n
           THEN /\ status = "error"
                /\ error = "Stack underflow in Run"
                /\ host_calls = prev.host_calls
           ELSE /\ Len(frame.stack) \in {kept, kept + 1}
                /\ SubSeq(frame.stack, 1, kept) = SubSeq(before, 1, kept)
                /\ i.ret = "void" => Len(frame.stack) = kept
                /\ Invokable(i) =>
                      /\ Len(host_calls) = Len(prev.host_calls) + 1
                      /\ host_calls[Len(host_calls)].args = [k \in 1..n |-> before[kept + k].data]

\* two arguments reach the host in push order
C13_Witness ==
    /\ cur >= 0
    /\ Op(cur) = "call"
    /\ Len(At(instructions, cur).params) = 2
    /\ host_calls # <<>>
    /\ host_calls[Len(host_calls)].args = <<PyStr("a"), PyStr("b")>>
    /\ Len(prev.frame.stack) = 2

\* C14: a `call` whose target does not resolve, or resolves to something that
\* cannot be invoked, only consumes its declared arguments: nothing is pushed,
\* nothing is appended to the captured output (also when the name is
\* System.Console.WriteLine), locals, args and return_value stay, no error is
\* raised and the driver goes on with the next instruction.
C14_UnresolvedCallOnlyConsumes ==
    (cur >= 0 /\ Op(cur) = "call") =>
        LET i == At(instructions, cur)
            before == prev.frame.stack
            kept == Len(before) - Len(i.params)
        IN (~Invokable(i) /\ kept >= 0) =>
              /\ frame = [prev.frame EXCEPT !.pc = cur + 1, !.stack = SubSeq(before, 1, kept)]
              /\ console_output = prev.console_output
              /\ host_calls = prev.host_calls
              /\ error = NoError
              /\ status \in {"running", "done"}
              /\ cur + 1 < Len(instructions) => status = "running"

\* WriteLine itself does not resolve: its argument is gone, nothing is captured
C14_Witness ==
    /\ cur >= 0
    /\ Op(cur) = "call"
    /\ At(instructions, cur).name = "System.Console.WriteLine"
    /\ ~Resolves
    /\ Len(prev.frame.stack) = 1
    /\ frame.stack = <<>>
    /\ console_output = <<>>
    /\ status = "running"

\* C15: `callvirt` is an alias of `call`: dispatching a callvirt line has the
\* effect on the stack, the captured output, the host and the error raised
\* that the same line written with `call` has.
AsCall(i) == [i EXCEPT !.op = "call"]

C15_CallvirtIsCall ==
    (cur >= 0 /\ Op(cur) = "callvirt") =>
        LET entered == [prev.frame EXCEPT !.pc = cur + 1]
            i == AsCall(At(instructions, cur))
            r == execute_instruction(entered, prev.console_output, i)
        IN /\ frame = r.frame
           /\ console_output = r.out
           /\ error = r.err
           /\ host_calls = prev.host_calls \o HostCall(entered, i)

\* C16: `div` on a left operand tagged INT32 or INT64 truncates toward zero:
\* for integers a and nonzero b it pushes sign(a*b) * floor(|a| / |b|), so
\* -7 div 2 pushes -3.
Abs(n) == IF n < 0 THEN -n ELSE n
Truncated(a, b) ==
    IF (a < 0) = (b < 0) THEN Abs(a) \div Abs(b) ELSE -(Abs(a) \div Abs(b))

StackOperands ==
    [a |-> prev.frame.stack[Len(prev.frame.stack) - 1], b |-> Top(prev.frame)]

C16_DivTruncatesTowardZero ==
    (Dispatched("div") /\ Len(prev.frame.stack) >= 2) =>
        LET a == StackOperands.a
            b == StackOperands.b
        IN (a.type_ \in {INT32, INT64} /\ a.data.k = "int" /\ b.data.k = "int" /\ b.data.i # 0)
              => Top(frame).data = PyInt(Truncated(a.data.i, b.data.i))

\* C17: `div` with a zero right operand raises a fatal error when the left
\* operand is tagged INT32 or INT64; when it is tagged FLOAT or DOUBLE no
\* error is raised and a result tagged like the left operand is pushed.
C17_DivisionByZero ==
    (cur >= 0 /\ Op(cur) = "div" /\ Len(prev.frame.stack) >= 2) =>
        LET a == StackOperands.a
            b == StackOperands.b
        IN (IsReal(a.data) /\ IsReal(b.data) /\ b.data.i = 0) =>
              IF a.type_ \in {INT32, INT64}
              THEN status = "error" /\ error # NoError
              ELSE /\ status # "error"
                   /\ Len(frame.stack) = Len(prev.frame.stack) - 1
                   /\ Top(frame).type_ = a.type_

\* C18 as stated: every add, sub, mul, div or rem dispatched on a stack of at
\* least two values pops two values and pushes one, tagged like the left
\* (earlier pushed) operand.
ArithmeticOps == {"add", "sub", "mul", "div", "rem"}
ArithmeticStep == cur >= 0 /\ Op(cur) \in ArithmeticOps /\ Len(prev.frame.stack) >= 2
Beneath == SubSeq(prev.frame.stack, 1, Len(prev.frame.stack) - 2)

C18_BinaryPopsTwoPushesOne ==
    ArithmeticStep =>
        /\ Len(frame.stack) = Len(prev.frame.stack) - 1
        /\ Top(frame).type_ = StackOperands.a.type_

\* Python's result for the opcode, the left operand being the earlier pushed
PyResult(o, a, b) ==
    CASE o = "add" -> PyAdd(a.data, b.data)
      [] o = "sub" -> PySub(a.data, b.data)
      [] o = "mul" -> PyMul(a.data, b.data)
      [] o = "rem" -> PyMod(a.data, b.data)
      [] OTHER -> IF a.type_ \in {INT32, INT64}
                  THEN PyFloorDiv(a.data, b.data)
                  ELSE PyTrueDiv(a.data, b.data)

\* C18 amended: the op pops two values and leaves the values beneath them;
\* when Python's operator raises no error exactly one value is pushed: its
\* payload is left op right with the earlier-pushed value as left operand and
\* its tag is the left operand's tag whatever the right one's; when the
\* operator raises (division by zero, operands it cannot combine) nothing is
\* pushed and the error is fatal.
C18_BinaryResult ==
    ArithmeticStep =>
        LET a == StackOperands.a
            b == StackOperands.b
            r == PyResult(Op(cur), a, b)
        IN IF r.ok
           THEN /\ status # "error"
                /\ frame.stack = Append(Beneath, Value(r.v, a.type_))
                /\ (Op(cur) = "sub" /\ a.data.k = "int" /\ b.data.k = "int")
                      => Top(frame).data = PyInt(a.data.i - b.data.i)
           ELSE /\ status = "error"
                /\ frame.stack = Beneath

\* 5 - 3 = 2, tagged INT32 like the left operand although the right is INT64
C18_Witness ==
    /\ ArithmeticStep
    /\ Op(cur) = "sub"
    /\ StackOperands.a = Value(PyInt(5), INT32)
    /\ StackOperands.b = Value(PyInt(3), INT64)
    /\ frame.stack = <<Value(PyInt(2), INT32)>>

\* C19: `ldloc x` pushes, equal in data and type tag, the value the last
\* `stloc x` took from the stack, whatever was dispatched in between that
\* neither stores to x nor re-declares it; `stloc x` sets x only: every other
\* local and every argument stays as it was.
C19_StoreLoadRoundTrip ==
    /\ Dispatched("ldloc") =>
          LET x == At(instructions, cur).name
          IN /\ x \in DOMAIN stored => Top(frame) = stored[x]
             /\ frame.stack = Append(prev.frame.stack, Top(frame))
    /\ Dispatched("stloc") =>
          LET x == At(instructions, cur).name
          IN /\ DOMAIN frame.locals = DOMAIN prev.frame.locals \cup {x}
             /\ frame.locals[x] = Top(prev.frame)
             /\ \A y \in DOMAIN prev.frame.locals \ {x} :
                    frame.locals[y] = prev.frame.locals[y]
             /\ frame.args = prev.frame.args

\* the string stored to x comes back after y, z and the argument x were written
C19_Witness ==
    /\ Dispatched("ldloc")
    /\ At(instructions, cur).name = "x"
    /\ Top(frame) = Value(PyStr("s"), STRING_)
    /\ DOMAIN frame.locals = {"x", "y", "z"}
    /\ "x" \in DOMAIN frame.args
    /\ frame.args["x"] # frame.locals["x"]

\* C20: an instruction that pops or peeks more values than the stack holds
\* (pop, dup, stloc, starg, throw, neg, a binary arithmetic or comparison
\* opcode on fewer than two values, a header testing `stack`, a call with too
\* few arguments) raises the stack-underflow error carrying the frame's method
\* name, and the structured driver takes no further step of the method.
Needs(i) ==
    CASE i.op \in {"pop", "dup", "stloc", "starg", "throw", "neg"} -> 1
      [] i.op \in BinaryOps -> 2
      [] i.op \in {"if", "while"} /\ i.cond.kind = "stack" -> 1
      [] i.op = "call" -> Len(i.params)
      [] OTHER -> 0

DriverStep ==
    \/ HandleIf
    \/ HandleWhile
    \/ Break
    \/ Continue
    \/ SkipElse
    \/ CloseBrace
    \/ ExecuteInstruction
    \/ RunOffEnd

C20_UnderflowIsFatal ==
    /\ (cur >= 0 /\ Needs(At(instructions, cur)) > Len(prev.frame.stack)) =>
          /\ status = "error"
          /\ error = "Stack underflow in " \o frame.method_name
          /\ frame.method_name = "Run"
    /\ status = "error" =>
          /\ ~ENABLED DriverStep
          /\ frame.pc = cur + 1

\* a comparison found one value: the error names Run and the nop after it is
\* never dispatched
C20_Witness ==
    /\ cur = 1
    /\ Op(cur) = "ceq"
    /\ Len(prev.frame.stack) = 1
    /\ status = "error"
    /\ error = "Stack underflow in Run"
    /\ Op(cur + 1) = "nop"
    /\ hits[cur + 1] = 0

\* C21: `ldloc x` with x not among the locals and `ldarg a` with a not among
\* the args raise the undefined-variable error naming the variable, also when
\* the other dictionary holds the name; stack, locals, args, return_value and
\* captured output are as before the instruction and the driver takes no
\* further step.
UndefinedLoad ==
    /\ cur >= 0
    /\ \/ Op(cur) = "ldloc" /\ At(instructions, cur).name \notin DOMAIN prev.frame.locals
       \/ Op(cur) = "ldarg" /\ At(instructions, cur).name \notin DOMAIN prev.frame.args

C21_UndefinedVariableIsFatal ==
    UndefinedLoad =>
        /\ status = "error"
        /\ error = (IF Op(cur) = "ldloc" THEN "Undefined local variable: "
                                         ELSE "Undefined argument: ")
                   \o At(instructions, cur).name
        /\ frame = [prev.frame EXCEPT !.pc = cur + 1]
        /\ console_output = prev.console_output
        /\ ~ENABLED DriverStep

\* the name asked for as a local is an argument; nothing moved
C21_Witness ==
    /\ UndefinedLoad
    /\ Op(cur) = "ldloc"
    /\ At(instructions, cur).name \in DOMAIN frame.args
    /\ Len(frame.stack) = 1
    /\ DOMAIN frame.locals = {"x"}
    /\ console_output = <<"p">>
    /\ error = "Undefined local variable: a"

\* C22: `throw` on a non-empty stack pops the top value and raises a fatal
\* error carrying that value's data; no instruction after it is dispatched
\* (also inside an if-body or a while-body), return_value stays unset and the
\* captured output is what was written before the throw.
Thrown == cur >= 0 /\ Op(cur) = "throw" /\ prev.frame.stack # <<>>

C22_ThrowUnwinds ==
    Thrown =>
        /\ status = "error"
        /\ error = "VM Exception: " \o str(Top(prev.frame).data)
        /\ frame = [prev.frame EXCEPT !.pc = cur + 1,
                                      !.stack = SubSeq(@, 1, Len(@) - 1)]
        /\ frame.return_value = <<>>
        /\ console_output = prev.console_output
        /\ ~ENABLED DriverStep

\* thrown from a while-body after one line was written
C22_Witness ==
    /\ Thrown
    /\ EnclosingLoops(cur) # {}
    /\ error = "VM Exception: boom"
    /\ console_output = <<"in">>
    /\ loop_stack # <<>>
    /\ frame.stack = <<>>

\* C23: an instruction whose opcode is in no table and that is not a
\* structured control-flow line changes nothing but the program counter,
\* which advances by one; no error is raised and the driver goes on with the
\* following instruction. `nop` has the same effect.
OpcodeTable ==
    {"ldstr", "ldc.i4", "ldc.i8", "ldc.r8", "ldnull", "ldc.b.0", "ldc.b.1", "ldloc", "ldarg",
     "ldcon", "ldtrue", "ldfalse", "stloc", "starg", "neg", "dup", "pop", "nop", "throw",
     "local", "if", "call", "callvirt", "ret"} \cup BinaryOps
ControlLines == {"if", "while", "break", "continue", "else", "}"}

C23_UnknownOpcodeIsNoOp ==
    (cur >= 0 /\ (Op(cur) = "nop" \/ Op(cur) \notin OpcodeTable \cup ControlLines)) =>
        /\ frame = [prev.frame EXCEPT !.pc = cur + 1]
        /\ loop_stack = prev.loop_stack
        /\ console_output = prev.console_output
        /\ error = NoError
        /\ status \in {"running", "done"}
        /\ cur + 1 < Len(instructions) => status = "running"

\* ---------------------------------------------------------------- parsed method bodies
Parsed == lines # <<>> /\ ~Parsing
Headers(method_name) ==
    {h \in 0..(Len(lines) - 1) : At(lines, h).op = "method" /\ At(lines, h).name = method_name}
HeaderOf(method_name) == CHOOSE h \in Headers(method_name) : TRUE
NotSkipped(l) == ~Skipped(l)
\* the lines strictly between the header of the method and the brace that
\* closes it, blank lines and comments removed
OwnBody(method_name) ==
    LET h == HeaderOf(method_name)
    IN SelectSeq(SubSeq(lines, h + 2, CloseFrom(lines, h + 1, 1)), NotSkipped)

\* C24: once a well-formed text is parsed, the instruction list of method Run
\* is exactly the non-blank, non-comment lines between its header and its own
\* closing brace: neither that brace nor any later line is part of it.
C24_ParsedBodyIsOwnBody ==
    Parsed => "Run" \in DOMAIN parser_methods /\ parser_methods["Run"] = OwnBody("Run")


\* C25: `break` pops the loop stack: right after a `break` dispatched inside
\* a while loop the stack no longer holds the entry of the loop that was left
\* and is one entry shorter than before.
EntryOf(h) == <<h, BlockClose(h)>>
C25_BreakPopsLoopStack ==
    (Dispatched("break") /\ EnclosingLoops(cur) # {} /\ prev.loop_stack # <<>>)
        => /\ Len(loop_stack) = Len(prev.loop_stack) - 1
           /\ \A k \in DOMAIN loop_stack : loop_stack[k] # EntryOf(InnermostLoop(cur))

\* C26: while the driver runs, the loop stack holds exactly one entry for
\* each while loop whose body (up to its closing brace) encloses pc, outermost
\* at the bottom, and none for a loop that was left; it is empty when the
\* method finishes without a `ret`.
ActiveLoops(p) == {h \in Positions : Op(h) = "while" /\ h < p /\ p <= BlockClose(h)}
Largest(S) == CHOOSE m \in S : \A x \in S : x <= m

RECURSIVE EntriesOf(_)
EntriesOf(S) ==
    IF S = {} THEN <<>> ELSE Append(EntriesOf(S \ {Largest(S)}), EntryOf(Largest(S)))

C26_LoopStackMatchesNesting ==
    /\ status = "running" => loop_stack = EntriesOf(ActiveLoops(frame.pc))
    /\ (status = "done" /\ frame.return_value = <<>>) => loop_stack = <<>>

\* C27: a running driver leaves a while loop only through its own header
\* evaluating false or a `break` that belongs to it; and once a loop nested in
\* it was left by `break` or has dispatched `continue`, the closing brace of
\* the outer loop still passes control to the outer header.
Region(h) == h..BlockClose(h)
InnerJumped(h) ==
    \E p \in Positions :
        /\ Op(p) \in {"break", "continue"}
        /\ hits[p] > 0
        /\ EnclosingLoops(p) # {}
        /\ h \in EnclosingLoops(InnermostLoop(p))

C27_LoopLeftOnlyByOwnExit ==
    /\ \A h \in Positions :
          (/\ Op(h) = "while"
           /\ status = "running"
           /\ cur \in Region(h)
           /\ frame.pc \notin Region(h))
              => \/ cur = h /\ ~_evaluate_condition(prev.frame, At(instructions, h).cond).v
                 \/ Op(cur) = "break" /\ InnermostLoop(cur) = h
    /\ (Dispatched("}") /\ ClosesLoop(cur) /\ InnerJumped(LoopClosedBy(cur)))
          => frame.pc = LoopClosedBy(cur)

\* C29: once a `ret` was dispatched it is the last instruction dispatched and
\* the driver has returned, with the value that was on top as return_value,
\* or with return_value unset when the stack was empty.
C29_RetEndsMethod ==
    \A p \in Positions :
        (Op(p) = "ret" /\ hits[p] > 0)
            => /\ cur = p
               /\ status = "done"
               /\ frame.return_value =
                     IF prev.frame.stack # <<>> THEN <<Top(prev.frame)>> ELSE <<>>


\* ---------------------------------------------------------------- termination
\* execute_method is one sequential loop: as long as it has neither returned
\* nor raised, its next iteration is taken.
LiveSpec == Spec /\ WF_vars(DriverStep)

\* every while loop of the method has a `break` of its own that no `if`
\* inside the loop guards, and the method has no `continue`: each loop is left
\* on its first iteration
Unguarded(h, p) ==
    \A q \in Positions : ~(Op(q) = "if" /\ h < q /\ q < p /\ p < BlockClose(q))
BreaksAtOnce ==
    /\ \A p \in Positions : Op(p) \notin {"continue", "iffy", "whileloop"}
    /\ \A h \in Positions :
          Op(h) = "while" =>
              \E p \in Positions :
                  /\ Op(p) = "break"
                  /\ EnclosingLoops(p) # {}
                  /\ InnermostLoop(p) = h
                  /\ Unguarded(h, p)
    /\ \E h \in Positions : Op(h) = "while"

\* C28: the structured driver terminates (runs off the end, returns or raises)
\* on every method whose while loops all break on their first iteration,
\* nested loops and a `break` after an inner loop included.
C28_BreakingLoopsTerminate == BreaksAtOnce => <>(status # "running")


\* C30: a resolved `call` whose host function returned leaves the values
\* beneath its arguments and pushes nothing when its return clause is void or
\* system.void in any letter case; with any other return clause it pushes
\* exactly one value, the host's Value as it is or else the result tagged by
\* the table on the lowercased clause without a leading "system." (OBJECT by
\* default); without a clause it pushes one value iff the result is not null.
IsVoid(r) == r \in {"void", "VOID", "Void", "System.Void"}
TagOf(r) ==
    CASE r \in {"string", "System.String"} -> STRING_
      [] r = "Int32" -> INT32
      [] r = "Bool" -> BOOL
      [] OTHER -> OBJECT

Returned ==
    /\ cur >= 0
    /\ Op(cur) = "call"
    /\ Invokable(At(instructions, cur))
    /\ Len(prev.frame.stack) >= Len(At(instructions, cur).params)
    /\ status # "error"

C30_ReturnWrapping ==
    Returned =>
        LET i == At(instructions, cur)
            n == Len(i.params)
            base == SubSeq(prev.frame.stack, 1, Len(prev.frame.stack) - n)
            host == Invoke(resolve(i.name),
                           [k \in 1..n |-> prev.frame.stack[Len(base) + k].data]).v
            wrapped(t) == IF IsValue(host) THEN host ELSE Value(host, t)
        IN frame.stack =
              CASE IsVoid(i.ret) -> base
                [] i.ret # "" -> Append(base, wrapped(TagOf(i.ret)))
                [] IsValue(host) -> Append(base, host)
                [] host # PyNone -> Append(base, Value(host, OBJECT))
                [] OTHER -> base

\* ReadLine declared `-> Int32` gave a Value: it is pushed as it is
C30_Witness ==
    /\ Returned
    /\ At(instructions, cur).name = "System.Console.ReadLine"
    /\ At(instructions, cur).ret = "Int32"
    /\ frame.stack = <<Value(PyInt(7), INT32), Value(PyStr("hi"), STRING_)>>


\* C31: in a binary condition of an `if` or `while` header each operand is an
\* integer literal if it parses as one, else the local of that name, else the
\* argument of that name, else 0 (no error for an unknown name); the header
\* branches on the comparison of the two and leaves stack, locals and args as
\* they were.
Resolved(o) ==
    CASE o.lit -> PyInt(o.n)
      [] o.id \in DOMAIN prev.frame.locals -> prev.frame.locals[o.id].data
      [] o.id \in DOMAIN prev.frame.args -> prev.frame.args[o.id].data
      [] OTHER -> PyInt(0)

Compares(a, o, b) ==
    CASE o = "<" -> a < b
      [] o = ">" -> a > b
      [] o = "<=" -> a <= b
      [] o = ">=" -> a >= b
      [] o = "==" -> a = b
      [] OTHER -> a # b

BinaryHeader ==
    /\ cur >= 0
    /\ Op(cur) \in {"if", "while"}
    /\ At(instructions, cur).cond.kind = "bin"
    /\ Resolved(At(instructions, cur).cond.l).k = "int"
    /\ Resolved(At(instructions, cur).cond.r).k = "int"

C31_OperandResolution ==
    BinaryHeader =>
        LET c == At(instructions, cur).cond
            holds == Compares(Resolved(c.l).i, c.op, Resolved(c.r).i)
        IN /\ status # "error"
           /\ frame.stack = prev.frame.stack
           /\ frame.locals = prev.frame.locals
           /\ frame.args = prev.frame.args
           /\ frame.pc =
                 IF holds THEN cur + 1
                 ELSE IF Op(cur) = "if" /\ (ElseSameLine(cur) \/ ElseNextLine(cur))
                      THEN ElseBodyStart(cur)
                      ELSE BlockClose(cur) + 1

\* `if (x < arg1)` with local x = 1, argument x = 2 and supplied arg1 = 2:
\* the local is compared and the body is entered
C31_Witness ==
    /\ BinaryHeader
    /\ At(instructions, cur).cond = Bin(Id("x"), "<", Id("arg1"))
    /\ {"x", "arg1"} \subseteq DOMAIN prev.frame.args
    /\ prev.frame.locals["x"].data = PyInt(1)
    /\ prev.frame.args["x"].data = PyInt(2)
    /\ prev.frame.args["arg1"].data = PyInt(2)
    /\ frame.pc = cur + 1
    /\ frame.stack = <<Value(PyInt(9), INT32)>>


\* C32: once a well-formed text is parsed, the methods table has exactly one
\* entry for each method header of the text, and each entry is that method's
\* own body: a method declared after one that holds `if` blocks is registered
\* under its own name, and a method holding `if` blocks has its instructions.
Declared == {At(lines, h).name : h \in {k \in 0..(Len(lines) - 1) : At(lines, k).op = "method"}}

C32_MethodsTableComplete ==
    Parsed =>
        /\ DOMAIN parser_methods = Declared
        /\ \A method_name \in Declared :
              method_name \in DOMAIN parser_methods
                  => parser_methods[method_name] = OwnBody(method_name)

====
